----------------------------- MODULE MCPrcV850 -----------------------------
(* Two tasks; handlers of two levels, the higher one the CPU lock's.       *)
EXTENDS PrcV850, TLC

CONSTANTS t1, t2

MCTasks == {t1, t2}
MCSymmetry == Permutations(MCTasks)
=============================================================================
