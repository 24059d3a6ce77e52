----------------------------- MODULE WaitObject -----------------------------
(***************************************************************************)
(* What the synchronization and communication objects have in common       *)
(* beyond kernel/wait.h: the part of the wait information block that is    *)
(* the object's own (WINFO_DTQ, WINFO_FLG, ...), through which a service   *)
(* hands a task that waits what it waits for, and the pointer arguments    *)
(* through which a service returns the same at once.                       *)
(***************************************************************************)
EXTENDS TaskSync

VARIABLES
  winfo,  \* the object's part of the wait information of a task that waits
  ret     \* what the last step has returned: to its caller, and to tasks
          \* whose wait it ended

objvars == <<k, winfo, ret>>

Nobody == [t \in Tasks |-> NULL]

WaitObjectInit == winfo = Nobody /\ ret = Nobody

(* A wait information block is a local variable of the service that waits: *)
(* what the wait is about counts until the wait ends, the result then.     *)
KeepWaiting(w) ==
  winfo' = [t \in Tasks |-> IF TSTAT_WAITING(k'.tstat[t]) THEN w[t] ELSE NULL]

(* How a step ends: x is returned to t, or nothing to anyone.  A call in a *)
(* task returns to k.runtsk, at once or, with a dispatch, later.           *)
Hand(t, x) == KeepWaiting(winfo) /\ ret' = [Nobody EXCEPT ![t] = x]
Return(x) == Hand(k.runtsk, x)
Nothing == KeepWaiting(winfo) /\ ret' = Nobody

(* wobj_make_wait_tmout and dispatch; make_wait_tmout with TMO_FEVR is     *)
(* make_wait, so the services without a timeout are those with TMO_FEVR.   *)
WaitFor(reason, w, tmout, x) ==
  /\ k' = dispatch(wobj_make_wait_tmout(k, reason, w, tmout))
  /\ KeepWaiting([winfo EXCEPT ![k.runtsk] = x])
  /\ ret' = Nobody

(* How far a loop over the list c goes on while Test holds.                *)
CountWhile(c, Test(_)) ==
  CHOOSE n \in 0 .. Len(c) : /\ \A i \in 1 .. n : Test(c[i])
                             /\ n < Len(c) => ~Test(c[n + 1])

(* The first n members of the list that starts at head and goes on through *)
(* next: all of them if it is not longer.                                  *)
Chain(head, next, n) ==
  LET at[i \in 1 .. n] == IF i = 1 THEN head
                          ELSE IF at[i - 1] = NULL THEN NULL
                          ELSE next[at[i - 1]]
  IN SubSeq(at, 1, CountWhile(at, LAMBDA x : x # NULL))

(* Two queues released one after the other: ini_dtq and ini_pdq.           *)
init_wait_queues(S, v, w) ==
  LET a == init_wait_queue(S, v)
      b == init_wait_queue(a.st, w)
  IN [st |-> b.st, dsp |-> a.dsp \/ b.dsp]
=============================================================================
