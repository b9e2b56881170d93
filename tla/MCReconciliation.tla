-------------------------- MODULE MCReconciliation --------------------------
(***************************************************************************)
(* Small instances of Reconciliation for TLC.  Amounts are in paise: the   *)
(* transactions are of Rs 1000, where 15% is above the Rs 50 floor, and of *)
(* Rs 250, where it is below.                                              *)
(***************************************************************************)
EXTENDS ReconciliationRefinement, Metrics, SequencesExt

CONSTANTS A, B, C, u1, u2, u3, u4, u5, u6, u7, u8

G(txn, token, net) == [txn |-> txn, token |-> token, net |-> net, date |-> 10]

gA == G("tA", A, 100000)
gB == G("tB", B, 100000)
gA2 == G("tC", A, 60000)
gSmall == G("tD", C, 25000)

K(utr, refs, amount, date) ==
  [utr |-> utr, refs |-> refs, amount |-> amount, date |-> date]

Statement == <<
  K(u1, {A}, 100000, 12),      \* exact for A
  K(u2, {A}, 100002, 13),      \* exact for A at the edge of the tolerance
  K(u3, {A}, 40000, 12),       \* with u4 or u5, a split for A
  K(u4, {A}, 60000, 12),
  K(u5, {A, B}, 60001, 14),    \* mentions two orders, too late for the verifier
  K(u6, {}, 96000, 11),        \* small gap, garbled reference
  K(u7, {B}, 80000, 12),       \* gross gap for B
  K(u8, {C}, 20500, 13)        \* 18% but Rs 45 short for C
>>

Pick(S) == LET ks == SetToSortSeq(S, LAMBDA x, y : x < y)
           IN  [n \in DOMAIN ks |-> Statement[ks[n]]]

\* The escalation threshold is that of gA and gB, or above every transaction.
Batch(g, ks, window, threshold, sample) ==
  [gateway |-> g, bank |-> Pick(ks), window |-> window, threshold |-> threshold,
   sample |-> sample, truth |-> <<>>, orphans |-> {}]

Some(n) == {ks \in SUBSET (DOMAIN Statement) : Cardinality(ks) = n}

\* Invalid input reaches the stage too: a transaction listed twice, a UTR
\* listed twice.
Invalid == {
  Batch(<<gA, gA>>, {1}, 7, 100000, 0),
  [Batch(<<gA, gB>>, {1}, 7, 100000, 0) EXCEPT !.bank = <<Statement[1], Statement[1]>>]}

FullBatches ==
  {Batch(g, ks, 7, 100000, 0) : g \in {<<gA, gB>>, <<gA2, gA>>, <<gSmall, gA2>>}, ks \in Some(3)}
  \cup Invalid

\* Every statement of one or of three rows against one transaction, under the
\* default window and a merchant's tighter one.
SingleBatches ==
  {Batch(<<g>>, ks, window, 150000, 0) :
     g \in {gA, gB, gA2, gSmall}, ks \in Some(1) \cup Some(3), window \in {2, 7}}

DemoBatches ==
  {Batch(<<gA2, gA, gB, gSmall>>, ks, 7, 100000, sample) : ks \in Some(3), sample \in 1..4}

\* Two generated transactions of the same amount, of any two kinds,
\* and a bank row that belongs to nobody, under a window that covers the lags
\* and one that does not.
Orphan == BankRecord(u5, 100000, 11, {})

GeneratedBatches == UNION {
  LET truth == ("tA" :> [mismatch_type |-> kindA, utr |-> u1, second |-> u2])
               @@ ("tB" :> [mismatch_type |-> kindB, utr |-> u3, second |-> u4])
  IN {[gateway |-> <<gA, gB>>,
       bank |-> SetToSeq(rowsA \cup rowsB \cup {Orphan}),
       window |-> window, threshold |-> 150000, sample |-> 0,
       truth |-> truth, orphans |-> {u5}] :
        window \in {2, 7}, rowsA \in Rows(truth["tA"], gA), rowsB \in Rows(truth["tB"], gB)} :
  kindA \in COUNTS, kindB \in COUNTS}

AllBatches == FullBatches \cup SingleBatches \cup DemoBatches \cup GeneratedBatches
=============================================================================
