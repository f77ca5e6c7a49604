-------------------------------- MODULE Order --------------------------------
(***************************************************************************)
(* Chunks and frames are numbered as they arrive: a sequence of them that  *)
(* nothing repeats or overtakes is increasing.                             *)
(***************************************************************************)
EXTENDS Naturals, Sequences

Increasing(s) == \A i, j \in 1 .. Len(s) : i < j => s[i] < s[j]
=============================================================================
