------------------------------ MODULE PrcV850 ------------------------------
(***************************************************************************)
(* The V850 port, arch/v850_gcc: interrupt masks, CPU lock, saved contexts *)
(* and nesting of handlers, under a portable kernel that may switch to any *)
(* task whenever it may switch at all.  Code between two steps of this     *)
(* module takes interrupts unless the mask keeps them out; what the port   *)
(* does with PSW.ID set is within a step.  Interrupt levels and masks are  *)
(* in the internal representation: 0 masks nothing.                        *)
(***************************************************************************)
EXTENDS Integers, Sequences, FiniteSets, SequencesExt, FiniteSetsExt

CONSTANTS
  Tasks, NULL,
  INTPRI_LOCK,  \* -TMIN_INTPRI: the mask of the CPU lock, the highest level
  Masks,        \* the masks given to chg_ipm
  Faults,       \* where the code causes CPU exceptions: in "user" code, or
                \* in critical sections of a "kernel" service
  MaxDepth,     \* bound: what is in progress in one context
  MaxTex        \* bound: nested exception routines

INTPRI_ENAALL == 0

ASSUME PrcAssumption ==
  /\ NULL \notin Tasks
  /\ INTPRI_LOCK \in Nat \ {0}
  /\ Masks \subseteq 0 .. INTPRI_LOCK
  /\ Faults \subseteq {"user", "kernel"}
  /\ MaxDepth \in Nat /\ MaxTex \in Nat

(* c.stack: what is in progress, innermost first; c.tcb: the same for each *)
(* task, as saved (TCB_sp, TCB_pc); c.imr: the level set_intpri wrote last *)
(* to the mask registers; c.ispr: the levels in service.                   *)
VARIABLE c

(* kind: "task", "tex" (an exception routine), "int" (a handler), "exc" (a *)
(* CPU exception handler), "idle" or "dispatcher".  at: "user" code, a     *)
(* critical section of a "kernel" service, or a place in the port.  lvl:   *)
(* the level of a handler; ipm: the current_intpri that interrupt or       *)
(* exception saved; locked: the lock_flag that exception saved.            *)
Frame(kind, at) ==
  [kind |-> kind, at |-> at, lvl |-> 0, ipm |-> 0, locked |-> FALSE]

Top == Head(c.stack)
Goto(S, at) == [S EXCEPT !.stack[1].at = at]
Push(S, f) == [S EXCEPT !.stack = <<f>> \o @]

dispatcher == <<Frame("dispatcher", "dispatcher")>>
activate_context == <<Frame("task", "start_r")>>

-----------------------------------------------------------------------------
(* prc_config.h and prc_config.c.  restore_imr needs no state: set_intpri  *)
(* overwrites what it wrote.                                               *)

set_intpri(S, intpri) == [S EXCEPT !.imr = intpri]

x_lock_cpu(S) == [set_intpri(S, INTPRI_LOCK) EXCEPT !.lock_flag = TRUE]

x_unlock_cpu(S) ==
  [set_intpri(S, S.current_intpri) EXCEPT !.lock_flag = FALSE]

x_set_ipm(S, intpri) ==
  [set_intpri(S, intpri) EXCEPT !.current_intpri = intpri]

(* The processor: the highest level in service is done.  (Not so where     *)
(* reti returns from a CPU exception, with PSW.EP set.)                    *)
reti(S) ==
  [S EXCEPT !.ispr = @ \ {m \in @ : \A n \in @ : n <= m}]

-----------------------------------------------------------------------------
(* What the portable kernel does with the port, in a task or an exception  *)
(* routine.  CPU locks of tasks and handlers are among the lock_cpu steps. *)

InTask == c.intnest = 0 /\ Top.kind \in {"task", "tex"}
InKernel == InTask /\ Top.at = "kernel"
InInt == Top.kind = "int" /\ Top.at \in {"user", "kernel"}
InExc == Top.kind = "exc" /\ Top.at \in {"user", "kernel"}
InHandler == InInt \/ InExc

lock_cpu ==
  /\ InTask \/ InHandler
  /\ Top.at = "user" /\ ~c.lock_flag
  /\ c' = Goto(x_lock_cpu(c), "kernel")

unlock_cpu ==
  /\ InTask \/ InHandler
  /\ Top.at = "kernel"
  /\ c' = Goto(x_unlock_cpu(c), "user")

(* As it goes on it may dispatch, call exception routines and unlock.      *)
chg_ipm(intpri) ==
  /\ InKernel
  /\ c' = [x_set_ipm(c, intpri) EXCEPT !.ipmflg = (intpri = INTPRI_ENAALL)]

Save(S) == [S EXCEPT !.tcb[S.runtsk] = S.stack, !.stack = dispatcher]

dispatch ==
  /\ InKernel /\ c.ipmflg
  /\ c' = Save(Goto(c, "dispatch_r"))

(* The task ends and is activated again, now or later.                     *)
ext_tsk ==
  /\ InKernel
  /\ LET E == IF c.ipmflg THEN c ELSE x_set_ipm(c, INTPRI_ENAALL)
     IN c' = [E EXCEPT !.ipmflg = TRUE, !.tcb[c.runtsk] = activate_context,
                       !.stack = dispatcher]

ter_tsk(t) ==
  /\ InKernel /\ t # c.runtsk
  /\ c' = [c EXCEPT !.tcb[t] = activate_context]

-----------------------------------------------------------------------------
(* prc_support.S: the dispatcher and the places where it goes to.          *)

dispatch_to(t) ==
  /\ Top.kind = "dispatcher"
  /\ c' = [c EXCEPT !.runtsk = t, !.stack = c.tcb[t]]

pre_idle ==
  /\ Top.kind = "dispatcher"
  /\ c' = [set_intpri(c, INTPRI_ENAALL) EXCEPT
             !.runtsk = NULL, !.lock_flag = FALSE, !.intnest = 1,
             !.stack = <<Frame("idle", "user")>>]

(* Mutant: leaves the mask open.                                           *)
idle_loop_open ==
  /\ Top.kind = "idle"
  /\ c' = [c EXCEPT !.intnest = 0, !.stack = dispatcher]

(* The idle loop finds reqflg set.                                         *)
idle_loop ==
  /\ Top.kind = "idle"
  /\ c' = [set_intpri(c, INTPRI_LOCK) EXCEPT
             !.intnest = 0, !.stack = dispatcher]

start_r ==
  /\ Top.at = "start_r"
  /\ c' = [set_intpri(Goto(c, "user"), INTPRI_ENAALL) EXCEPT
             !.lock_flag = FALSE]

dispatch_r == Top.at = "dispatch_r" /\ c' = Goto(c, "kernel")

-----------------------------------------------------------------------------
(* Interrupts.  One is taken if its level is neither masked nor in service *)
(* nor lower than one that is.                                             *)

interrupt(lvl) ==
  /\ lvl > c.imr /\ \A m \in c.ispr : m < lvl
  /\ Len(c.stack) < MaxDepth
  /\ c' = Push([c EXCEPT !.lock_flag = FALSE, !.current_intpri = lvl,
                         !.intnest = @ + 1, !.ispr = @ \cup {lvl}],
               [Frame("int", "user") EXCEPT !.lvl = lvl,
                                            !.ipm = c.current_intpri])

return_from_int(S) ==
  LET saved == Head(S.stack).ipm
      R == [set_intpri(S, saved) EXCEPT
              !.current_intpri = saved, !.lock_flag = FALSE,
              !.stack = Tail(@)]
  IN IF Head(S.stack).kind = "exc" THEN R ELSE reti(R)

(* Mutant: leaves the handler's level in current_intpri.                   *)
ret_int_no_intpri(S) ==
  reti(Save(x_lock_cpu(Goto(S, "ret_int_r"))))

(* Mutant: jumps to the dispatcher without reti.                           *)
ret_int_no_reti(S) ==
  Save([x_lock_cpu(Goto(S, "ret_int_r")) EXCEPT
          !.current_intpri = INTPRI_ENAALL])

(* The handler's end switches to another task.                             *)
ret_int(S) ==
  LET D == Save([x_lock_cpu(Goto(S, "ret_int_r")) EXCEPT
                   !.current_intpri = INTPRI_ENAALL])
  IN IF Head(S.stack).kind = "exc" THEN D ELSE reti(D)

Ended == [c EXCEPT !.lock_flag = FALSE, !.intnest = @ - 1]

(* Mutant: forgets the count when it dispatches.                           *)
return_to_task_keep_intnest ==
  /\ InInt /\ Ended.intnest = 0
  /\ c.ipmflg
  /\ c' = ret_int(c)

return_to_task ==
  /\ InInt /\ Ended.intnest = 0
  /\ c.ipmflg
  /\ c' = ret_int(Ended)

end_int_handler == InInt /\ c' = return_from_int(Ended)

ret_int_r == Top.at = "ret_int_r" /\ c' = return_from_int(c)

(* call_cychdr and call_almhdr, back from the handler.                     *)
call_cychdr ==
  /\ InInt /\ Top.at = "kernel"
  /\ c' = x_set_ipm(c, c.current_intpri)

-----------------------------------------------------------------------------
(* CPU exceptions.  In a critical section the handler runs with lock_flag  *)
(* as it is, so that it can call no service, but with the mask it had      *)
(* before the CPU was locked.                                              *)

exception ==
  /\ Top.kind \in {"task", "tex", "int", "exc"} /\ Top.at \in Faults
  /\ Len(c.stack) < MaxDepth
  /\ LET E == IF c.lock_flag THEN set_intpri(c, c.current_intpri) ELSE c
     IN c' = Push([E EXCEPT !.intnest = @ + 1],
                  [Frame("exc", "user") EXCEPT !.ipm = c.current_intpri,
                                               !.locked = c.lock_flag])

return_from_exc(S) ==
  LET saved == Head(S.stack).ipm
  IN [set_intpri(S, saved) EXCEPT !.current_intpri = saved, !.stack = Tail(@)]

Exc_ended ==
  LET E == IF Top.locked THEN set_intpri(c, INTPRI_LOCK) ELSE c
  IN [E EXCEPT !.lock_flag = Top.locked, !.intnest = @ - 1]

end_exc_handler == InExc /\ c' = return_from_exc(Exc_ended)

return_to_task_from_exc ==
  /\ InExc /\ Exc_ended.intnest = 0
  /\ c.ipmflg
  /\ c' = ret_int(Exc_ended)

(* Where reqflg is set and there is no switch to make, it goes on as the   *)
(* end of an interrupt, check_texrtn_cond.                                 *)
check_texrtn_cond_exc ==
  /\ InExc /\ Exc_ended.intnest = 0
  /\ c' = return_from_int(Exc_ended)

-----------------------------------------------------------------------------
(* call_texrtn of kernel/task.c: from a service, from dispatch_r, and from *)
(* the end of a handler, at once or in ret_int_r.                          *)

call_texrtn(S) == x_unlock_cpu(Push(S, Frame("tex", "user")))

TexMay ==
  c.ipmflg /\ Len(SelectSeq(c.stack, LAMBDA f : f.kind = "tex")) < MaxTex

calltex == InKernel /\ TexMay /\ c' = call_texrtn(c)

dispatch_r_calltex ==
  /\ Top.at = "dispatch_r"
  /\ TexMay
  /\ c' = call_texrtn(Goto(c, "kernel"))

check_texrtn_cond ==
  /\ TexMay
  /\ \/ /\ InInt /\ Ended.intnest = 0
        /\ c' = call_texrtn(Goto(Ended, "return_from_int"))
     \/ /\ InExc /\ Exc_ended.intnest = 0
        /\ c' = call_texrtn(Goto(Exc_ended, "return_from_int"))
     \/ /\ Top.at = "ret_int_r"
        /\ c' = call_texrtn(Goto(c, "return_from_int"))

texrtn_return ==
  /\ InTask /\ Top.kind = "tex" /\ Top.at \in {"user", "kernel"}
  /\ LET L == IF c.lock_flag THEN c ELSE x_lock_cpu(c)
         E == IF c.ipmflg THEN L ELSE x_set_ipm(L, INTPRI_ENAALL)
     IN c' = Goto([E EXCEPT !.ipmflg = TRUE], "loop")

texrtn_dispatch ==
  Top.at = "loop" /\ c' = Save(Goto(c, "loop_r"))

texrtn_until ==
  /\ Top.at \in {"loop", "loop_r"}
  /\ LET R == [c EXCEPT !.stack = Tail(@)]
     IN \/ c' = Goto(x_unlock_cpu(c), "user")
        \/ /\ Head(R.stack).at = "kernel"
           /\ c' = R
        \/ /\ Head(R.stack).at = "return_from_int"
           /\ c' = return_from_int(R)

-----------------------------------------------------------------------------
(* start_dispatch. *)
Init ==
  c = [imr |-> INTPRI_LOCK, ispr |-> {}, lock_flag |-> TRUE,
       current_intpri |-> INTPRI_ENAALL, intnest |-> 0, ipmflg |-> TRUE,
       runtsk |-> NULL, stack |-> dispatcher,
       tcb |-> [t \in Tasks |-> activate_context]]

Next ==
  \/ lock_cpu \/ unlock_cpu \/ dispatch \/ ext_tsk
  \/ \E intpri \in Masks : chg_ipm(intpri)
  \/ \E t \in Tasks : ter_tsk(t) \/ dispatch_to(t)
  \/ pre_idle \/ idle_loop \/ start_r \/ dispatch_r
  \/ \E lvl \in 1 .. INTPRI_LOCK : interrupt(lvl)
  \/ return_to_task \/ end_int_handler \/ ret_int_r \/ call_cychdr
  \/ exception \/ end_exc_handler \/ return_to_task_from_exc
  \/ check_texrtn_cond_exc

Spec == Init /\ [][Next]_c

(* With exception routines. *)
TexNext ==
  \/ Next
  \/ calltex \/ dispatch_r_calltex \/ check_texrtn_cond
  \/ texrtn_return \/ texrtn_dispatch \/ texrtn_until

TexSpec == Init /\ [][TexNext]_c

-----------------------------------------------------------------------------
(* The places of the handlers in progress, the innermost first; a handler  *)
(* whose end has dispatched or called an exception routine is over.        *)
InProgress(f) == f.kind \in {"int", "exc"} /\ f.at \in {"user", "kernel"}

Handlers == {i \in DOMAIN c.stack : InProgress(c.stack[i])}
Ints == {i \in Handlers : c.stack[i].kind = "int"}

(* sense_context tells the truth: intnest counts the handlers in progress, *)
(* and the idle loop as one (prc_config.h: intnest > 0 is the context      *)
(* every service checks), through every switch between tasks, handlers, of *)
(* CPU exceptions too, and the idle loop.                                  *)
NestOK ==
  c.intnest =
    Cardinality(Handlers) + (IF Last(c.stack).kind = "idle" THEN 1 ELSE 0)

(* The levels in service are those of the handlers in progress, a handler  *)
(* interrupts only lower ones, and a task runs with none in service        *)
(* whatever handler switched to it (ret_int does its own reti); the        *)
(* current level is the innermost handler's, so that i_unlock_cpu never    *)
(* opens more than it closed.                                              *)
LevelsOK ==
  /\ c.ispr = {c.stack[i].lvl : i \in Ints}
  /\ \A i, j \in Ints : i < j => c.stack[i].lvl > c.stack[j].lvl
  /\ \A i \in Ints :
       (\A j \in Ints : i <= j) => c.current_intpri = c.stack[i].lvl

(* The mask a task has set is its own until it changes it: wherever it was *)
(* interrupted or switched out, its code runs under it again, and ipmflg   *)
(* of the portable kernel says whether it masks anything.                  *)
TaskMask ==
  IF Handlers = {} THEN c.current_intpri ELSE c.stack[Max(Handlers)].ipm

MaskOK ==
  /\ c.ipmflg <=> TaskMask = INTPRI_ENAALL
  /\ InTask /\ Top.at = "user" => c.imr = c.current_intpri /\ ~c.lock_flag

(* A critical section is entered with the mask of the CPU lock, be it a    *)
(* service, the dispatcher after a task or the idle loop, or a task that   *)
(* was switched out; inside, from task to task, the mask stays, and only   *)
(* x_set_ipm opens it (as chg_ipm, ext_tsk and call_cychdr call it with    *)
(* the CPU locked), the end of a CPU exception, which sets the mask from   *)
(* current_intpri, or the return from a handler that came in after these:  *)
(* the kernel's services are atomic but for what follows them.  LockMasks  *)
(* is about x_set_ipm; what the end of a CPU exception leaves open is the  *)
(* mask that end_exc_handler has just set again.                           *)
Critical(S) ==
  Head(S.stack).at \in {"kernel", "dispatcher", "start_r", "dispatch_r",
                        "ret_int_r"}

LockKept ==
  [][Critical(c') /\ (Critical(c) => c.imr = INTPRI_LOCK) =>
       \/ c'.imr = INTPRI_LOCK
       \/ \E intpri \in Masks : chg_ipm(intpri)
       \/ ext_tsk \/ call_cychdr \/ end_int_handler \/ ret_int_r
       \/ end_exc_handler \/ check_texrtn_cond_exc]_c

(* What the comment of TIPM_LOCK says of the mask in the CPU lock.         *)
LockMasks == c.lock_flag => c.imr = INTPRI_LOCK

(* What porting.txt says of the call of an exception routine: all          *)
(* interrupts are enabled (and none is in service).                        *)
TexUnmasked ==
  [][Top.kind # "tex" /\ Head(c'.stack).kind = "tex"
       /\ Head(c'.stack).at = "user" /\ Len(c'.stack) > Len(c.stack)
     => c'.imr = INTPRI_ENAALL /\ c'.ispr = {}]_c
=============================================================================
