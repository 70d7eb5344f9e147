----------------------------- MODULE MCSampling -----------------------------
(***************************************************************************)
(* Six records in three blocks.  d1 and d2 share their values, so that the *)
(* keys of their charts collide; no record has d1 = 2 and d2 = 2.          *)
(***************************************************************************)
EXTENDS Sampling, SequencesExt

MCVal == [d1 |-> [r \in Records |-> IF r[1] = 1 THEN 2 ELSE 1],
          d2 |-> [r \in Records |-> IF r = << 2, 0 >> THEN 2 ELSE 1]]

MCCharts == { [dims |-> << "d1" >>], [dims |-> << "d2" >>],
              [dims |-> << "d1", "d2" >>] }
MCBlocks == [c \in MCCharts |-> 1]

Earlier(r, s) == r[1] < s[1] \/ (r[1] = s[1] /\ r[2] < s[2])
MCToArray == [S \in SUBSET Records |-> SetToSortSeq(S, Earlier)]
=============================================================================
