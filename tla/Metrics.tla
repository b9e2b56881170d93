------------------------------- MODULE Metrics -------------------------------
(***************************************************************************)
(* Reconciliation against the truth: the cases of                          *)
(* data/synthetic_generator.py and the score of eval/metrics.py.           *)
(*                                                                         *)
(* A generated batch knows truth, which maps each transaction to           *)
(*   [mismatch_type, utr, second]: its kind and the UTRs the generator     *)
(* made for it, and orphans, the UTRs of bank rows that belong to nobody.  *)
(* The split into dev and eval is any subset of the records, so a          *)
(* statement about every scored record is about all of them.               *)
(***************************************************************************)
EXTENDS Reconciliation

CONSTANTS
  ExtraCharges,  \* the deductions FEE_DRIFT draws from, in paise
  Lags           \* the days TIMING_LAG draws from

ASSUME DrawAssumption == ExtraCharges \subseteq 500..4000 /\ Lags \subseteq 1..3

COUNTS == {"CLEAN", "FEE_DRIFT", "TIMING_LAG", "GARBLED_REF", "DUPLICATE", "SPLIT", "ORPHAN_GATEWAY"}

\* random_amount draws at least Rs 150, of which fee and tax take Rs 3.54.
least_amount == 15000
least_net == 14646

BankRecord(utr, amount, date, refs) == [utr |-> utr, refs |-> refs, amount |-> amount, date |-> date]

\* garble_token: a truncated reference is lost; dashes, spaces and case are what
\* the matcher's normalisation takes out again.
Garbled(token) == {{}, {token}}

\* The bank rows transaction g of truth c may come with.  Half of an odd
\* number of paise is rounded either way.
Rows(c, g) ==
  LET row(utr, amount) == BankRecord(utr, amount, g.date, {g.token})
      halves == {g.net \div 2, g.net - g.net \div 2}
  IN
  CASE c.mismatch_type = "CLEAN" -> {{row(c.utr, g.net)}}
    [] c.mismatch_type = "TIMING_LAG" ->
         {{BankRecord(c.utr, g.net, g.date + days, {g.token})} : days \in Lags}
    [] c.mismatch_type = "FEE_DRIFT" ->
         {{row(c.utr, g.net - extra_charge)} : extra_charge \in ExtraCharges}
    [] c.mismatch_type = "GARBLED_REF" ->
         {{BankRecord(c.utr, g.net, g.date, refs)} : refs \in Garbled(g.token)}
    [] c.mismatch_type = "DUPLICATE" -> {{row(c.utr, g.net), row(c.second, g.net)}}
    [] c.mismatch_type = "SPLIT" ->
         {{row(c.utr, part), row(c.second, g.net - part)} : part \in halves}
    [] c.mismatch_type = "ORPHAN_GATEWAY" -> {{}}

\* The UTRs made for a transaction, and those of them that are its settlement.
Made(c) ==
  CASE c.mismatch_type = "ORPHAN_GATEWAY" -> {}
    [] c.mismatch_type \in {"DUPLICATE", "SPLIT"} -> {c.utr, c.second}
    [] OTHER -> {c.utr}

correct_settlement_utrs(c) ==
  IF c.mismatch_type = "DUPLICATE" THEN {c.utr} ELSE Made(c)

RowsOf(b, i) == {k \in DOMAIN b.bank : b.bank[k].utr \in Made(b.truth[b.gateway[i].txn])}

\* What generate returns: the rows of each transaction in any order, and rows
\* that belong to nobody.  Order tokens and UTRs are drawn without collision.
Generated(b) ==
  /\ b.window \in Nat
  /\ \A i \in DOMAIN b.gateway :
       LET g == b.gateway[i]
           c == b.truth[g.txn]
       IN  /\ g.txn \in DOMAIN b.truth
           /\ c.mismatch_type \in COUNTS
           /\ c.utr # c.second
           /\ g.net >= least_net
           /\ {b.bank[k] : k \in RowsOf(b, i)} \in Rows(c, g)
           /\ Made(c) \cap b.orphans = {}
           /\ \A j \in DOMAIN b.gateway \ {i} :
                /\ b.gateway[j].token # g.token
                /\ Made(b.truth[b.gateway[j].txn]) \cap Made(c) = {}
  /\ \A k \in DOMAIN b.bank :
       \/ \E i \in DOMAIN b.gateway : k \in RowsOf(b, i)
       \/ /\ b.bank[k].utr \in b.orphans
          /\ b.bank[k].amount >= least_amount
          /\ \A i \in DOMAIN b.gateway : ~Mentions(b.gateway[i], b.bank[k])

\* A batch with a truth was generated.
ASSUME GeneratedAssumption ==
  \A b \in Batches : (DOMAIN b.truth = {} /\ b.orphans = {}) \/ Generated(b)

-----------------------------------------------------------------------------
(* compute_metrics                                                         *)

eval_txns == DOMAIN batch.truth

\* A wrong active match: of a transaction, or of a row that is nobody's.
Incorrect(d) ==
  /\ d.txn \in eval_txns
  /\ LET c == batch.truth[d.txn]
     IN  c.mismatch_type = "ORPHAN_GATEWAY" \/ d.utrs # correct_settlement_utrs(c)

ClaimsOrphan(d) == d.utrs \cap batch.orphans # {}

\* "False positive" is the score's word for a wrong active match: on generated
\* data, whatever the kinds of the transactions, their order and the LLM, each
\* one is marked for review, unless the agent recorded UTRs that the verifier
\* did not see.
FalsePositivesAreReviewed ==
  \A n \in DOMAIN matched :
    LET d == matched[n]
    IN  Incorrect(d) \/ ClaimsOrphan(d) =>
          \/ RequiresHumanReview(d, gateway[Index(d)].net, batch.threshold)
          \/ d.utrs # {bank[k].utr : k \in d.checked}

\* Before any LLM is asked the score has its floor: if the window covers the
\* lags, a full run has every transaction of a routine kind right, in one row
\* or in two, and reports every one that was paid twice; what the other
\* transactions or the agent claim takes none of it back.
RoutineCasesAreSettled ==
  /\ phase \in {"agent", "done"}
  /\ ~IsDemo
  /\ \A days \in Lags : days <= batch.window
  => \A i \in DOMAIN gateway :
       LET txn == gateway[i].txn
           c == batch.truth[txn]
       IN  txn \in eval_txns =>
             /\ c.mismatch_type \in {"CLEAN", "TIMING_LAG", "SPLIT"} =>
                  \E n \in DOMAIN matched :
                    matched[n].txn = txn /\ matched[n].utrs = correct_settlement_utrs(c)
             /\ c.mismatch_type = "DUPLICATE" =>
                  \E n \in DOMAIN exceptions : exceptions[n].txn = txn

\* compute_metrics, on what generate makes: its correct matches are at least
\* the routine ones, and its false positives are all in front of a human.
ScoreIsSound == FalsePositivesAreReviewed /\ RoutineCasesAreSettled
=============================================================================
