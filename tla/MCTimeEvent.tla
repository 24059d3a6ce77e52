----------------------------- MODULE MCTimeEvent -----------------------------
(* Six events, the fewest for which tmevtb_delete has to move a node up;   *)
(* ticks of one and a half milliseconds; times that wrap around at 7.      *)
EXTENDS TimeEvent

CONSTANTS e1, e2, e3, e4, e5, c1

MCOneShot == {e1, e2, e3, e4, e5}
MCcyctim == c1 :> 1
MCcycphs == c1 :> 1
MCStarted == <<c1>>
MCSymmetry == Permutations(MCOneShot)
=============================================================================
