--------------------------- MODULE MCMerchantConfig ---------------------------
(* Two merchants; other callers send one field, the other, or none.        *)
EXTENDS MerchantConfig, TLC

AllRequests == {[window |-> 2], [threshold |-> 50], <<>>}

Symmetry == Permutations(Merchants)
=============================================================================
