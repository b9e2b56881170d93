----------------------------- MODULE MCRunStore -----------------------------
(* Small instances of RunStore for TLC. *)
EXTENDS RunStoreRefinement

CONSTANTS r1, r2

\* r1 has work in both stages, r2 only an agent decision.
MCDet == [r \in Runs |-> IF r = r1 THEN 1 ELSE 0]
MCAgent == [r \in Runs |-> 1]
=============================================================================
