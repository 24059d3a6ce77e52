------------------------------ MODULE MCSerial ------------------------------
(* Two tasks that do the same; buffers of two characters, so that they     *)
(* fill soon.                                                              *)
EXTENDS Serial

CONSTANT a   \* a character

Lines == {<<LF>>, <<a, LF>>}

Symmetry == Permutations(Users)

=============================================================================
