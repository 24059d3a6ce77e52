--------------------------- MODULE PrioritySched ---------------------------
(***************************************************************************)
(* What a user of the kernel is promised about the processor: the task     *)
(* that runs is a ready task of the highest priority, except while         *)
(* dispatching is held back (by a handler, an interrupt mask, dis_dsp);    *)
(* then the task that has the processor keeps it.                          *)
(***************************************************************************)
EXTENDS Integers

CONSTANTS Tasks, NULL, TNUM_TPRI

VARIABLES
  ready,  \* the tasks that can run
  prio,   \* their priorities
  run,    \* the task that has the processor, or NULL
  held    \* dispatching is held back

vars == <<ready, prio, run, held>>

(* The tasks that may have the processor. *)
Top == {t \in ready : \A u \in ready : prio[t] <= prio[u]}

RunsTop == IF ready = {} THEN run = NULL ELSE run \in Top

Init ==
  /\ ready = {} /\ run = NULL /\ held = TRUE
  /\ prio \in [Tasks -> 0 .. TNUM_TPRI - 1]

(* Tasks become ready or not and change priority at any time.              *)
Change ==
  /\ ready' \in SUBSET Tasks
  /\ prio' \in [Tasks -> 0 .. TNUM_TPRI - 1]
  /\ held' \in BOOLEAN

Keep == Change /\ held' = TRUE /\ run' = run
Dispatch == Change /\ held' = FALSE /\ RunsTop'

Next == Keep \/ Dispatch

Spec == Init /\ [][Next]_vars
=============================================================================
