----------------------------- MODULE TimerQueue -----------------------------
(***************************************************************************)
(* What the users of time events are promised, in exact time that never    *)
(* wraps around: a time event never happens early, happens in the first    *)
(* tick in which it may, after all the events that are due before it, and  *)
(* a cyclic one does not drift.  Time is in units of 1/TIC_DENO ms, as     *)
(* seen from the last tick; a tick lasts TIC_NUME units.                   *)
(***************************************************************************)
EXTENDS Integers

CONSTANTS Events, RelTimes, TIC_NUME, TIC_DENO

VARIABLES
  left,    \* the time left for each event that is set
  ticking  \* a tick is being processed

vars == <<left, ticking>>

Remove(e) == [f \in DOMAIN left \ {e} |-> left[f]]

Init == ticking = FALSE /\ \E S \in SUBSET Events : left \in [S -> Int]

(* The relative time counts from the coming tick, at its end at the latest *)
(* by less than 1 ms.                                                      *)
Set(e) ==
  \E r \in RelTimes, late \in 0 .. TIC_DENO - 1 :
    left' = [f \in DOMAIN left \cup {e} |->
               IF f = e THEN TIC_NUME + r * TIC_DENO + late ELSE left[f]]

Cancel(e) == e \in DOMAIN left /\ left' = Remove(e)

User == UNCHANGED ticking /\ \E e \in Events : Set(e) \/ Cancel(e)

BeginTick ==
  /\ ~ticking /\ ticking' = TRUE
  /\ left' = [e \in DOMAIN left |-> left[e] - TIC_NUME]

(* The event happens, and is over or set again one cycle later.            *)
Happen(e) ==
  /\ ticking
  /\ e \in DOMAIN left
  /\ left[e] <= 0
  /\ \A f \in DOMAIN left : left[e] <= left[f]
  /\ \/ left' = Remove(e)
     \/ \E c \in RelTimes \ {0} : left' = [left EXCEPT ![e] = @ + c * TIC_DENO]
  /\ UNCHANGED ticking

EndTick ==
  /\ ticking /\ ticking' = FALSE
  /\ \A e \in DOMAIN left : left[e] > 0
  /\ UNCHANGED left

Next == User \/ BeginTick \/ (\E e \in Events : Happen(e)) \/ EndTick

Spec == Init /\ [][Next]_vars
=============================================================================
