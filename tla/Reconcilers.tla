----------------------------- MODULE Reconcilers -----------------------------
(***************************************************************************)
(* The five standalone reconcilers (agent/batch_settlement.py,             *)
(* marketplace_settlement.py, chargeback_matcher.py, refund_matcher.py,    *)
(* fx_reconciliation.py) and the gate every request passes (the body limit *)
(* of api/app.py and api/auth.py).                                         *)
(*                                                                         *)
(* Amounts are whole paise.  Lists are sequences of records with a field   *)
(* amount, so that Total and Near of Matching apply: all five modules      *)
(* import matcher.py's AMOUNT_EPSILON.  An optional amount is a set with   *)
(* one element or none.                                                    *)
(***************************************************************************)
EXTENDS Matching

-----------------------------------------------------------------------------
(* batch_settlement.py                                                     *)

MAX_GROUP_SIZE == 5
MAX_POOL_SIZE == 12

\* A missing batch id and an empty one are both falsy.
Unset == {"none", ""}

\* Variant with a bug: only a missing id counts as unset.
BatchedUnlessNone(records) == {i \in DOMAIN records : records[i].batch # "none"}

Batched(records) == {i \in DOMAIN records : records[i].batch \notin Unset}

Unbatched(records) == {i \in DOMAIN records : records[i].batch \in Unset}

InBatch(records, b) == {i \in DOMAIN records : records[i].batch = b}

BatchIds(records) == {records[i].batch : i \in Batched(records)}

DuplicateBatch(lines) == \E b \in BatchIds(lines) : Cardinality(InBatch(lines, b)) > 1

BatchReport(gateway, lines, b) ==
  LET members == InBatch(gateway, b)
      credited == {lines[i].amount : i \in InBatch(lines, b)}
  IN  [batch |-> b, members |-> members, credited |-> credited,
       matched |-> \E c \in credited : Near(Total(gateway, members), c)]

\* reconcile_by_batch_id
BatchReports(gateway, lines) == {BatchReport(gateway, lines, b) : b \in BatchIds(gateway)}

Groups(gateway, size, amount) ==
  {ks \in kSubset(size, Unbatched(gateway)) : Near(Total(gateway, ks), amount)}

AllGroups(gateway, amount) == UNION {Groups(gateway, size, amount) : size \in 2..MAX_GROUP_SIZE}

Smaller(groups, ks) == {js \in groups : Cardinality(js) < Cardinality(ks)}

\* Variant with a bug: the smallest groups win.
FoundSmallest(gateway, amount) ==
  LET groups == AllGroups(gateway, amount) IN {ks \in groups : Smaller(groups, ks) = {}}

\* The search goes by size and stops once two groups are found.
Found(gateway, amount) ==
  LET groups == AllGroups(gateway, amount)
  IN  {ks \in groups : Cardinality(Smaller(groups, ks)) < 2}

\* find_bounded_subset_matches.  An ambiguous result of the code shows two of
\* the groups; which two is left out.
SubsetMatch(gateway, amount) ==
  IF Cardinality(Unbatched(gateway)) > MAX_POOL_SIZE
  THEN [amount |-> amount, status |-> "pool_too_large", groups |-> {}]
  ELSE LET found == Found(gateway, amount)
           status == IF found = {} THEN "no_match_found"
                     ELSE IF Cardinality(found) = 1 THEN "candidate_match" ELSE "ambiguous"
       IN  [amount |-> amount, status |-> status, groups |-> found]

-----------------------------------------------------------------------------
(* marketplace_settlement.py                                               *)

TransferStatuses == {"settled", "on_hold", "reversed"}

Part(transfers, status) ==
  Total(transfers, {i \in DOMAIN transfers : transfers[i].status = status})

\* Variant with a bug: a reversal is subtracted.
SplitGapSubtracting(net, transfers, commission) ==
  net - (Part(transfers, "settled") + Part(transfers, "on_hold") + commission
         - Part(transfers, "reversed"))

\* A reversed transfer was part of the split: it is added.
SplitGap(net, transfers, commission) ==
  net - (Part(transfers, "settled") + Part(transfers, "on_hold") + commission
         + Part(transfers, "reversed"))

\* reconcile_split_transaction
SplitReport(net, transfers, commission) ==
  LET gap == SplitGap(net, transfers, commission)
      status == IF ~Near(gap, 0) THEN "mismatch"
                ELSE IF Part(transfers, "on_hold") > 0 THEN "pending_hold"
                ELSE IF Part(transfers, "reversed") > 0 THEN "reversal_accounted"
                ELSE "fully_reconciled"
  IN  [status |-> status, gap |-> IF Near(gap, 0) THEN 0 ELSE gap]

-----------------------------------------------------------------------------
(* chargeback_matcher.py                                                   *)

IN_FLIGHT_STATUSES == {"open", "under_review", "pre_arbitration", "arbitration"}

DisputeStatuses == IN_FLIGHT_STATUSES \cup {"won", "lost"}

\* What the merchant should hold: the debit is provisional from the first day
\* and given back only by a win; the fee is kept either way.
ExpectedBalance(net, d) ==
  IF d.status = "won" THEN net - d.fee ELSE net - d.disputed - d.fee

\* reconcile_chargeback
ChargebackReport(net, d) ==
  IF d.disputed > net + AMOUNT_EPSILON
  THEN [classification |-> "invalid_dispute", balance |-> {}]
  ELSE [classification |-> IF d.status = "won" THEN "reversed"
                           ELSE IF d.status = "lost" THEN "finalized_debit" ELSE "in_flight",
        balance |-> {ExpectedBalance(net, d)}]

-----------------------------------------------------------------------------
(* refund_matcher.py; captured: the net amount of each known transaction   *)

EventsOf(events, txn) == {i \in DOMAIN events : events[i].txn = txn}

Refunded(events, txn) == Total(events, EventsOf(events, txn))

RefundClass(original, refunded) ==
  IF refunded > original + AMOUNT_EPSILON THEN "over_refunded"
  ELSE IF refunded >= original - AMOUNT_EPSILON THEN "full_refund" ELSE "partial_refund"

\* reconcile_refunds: one record for each transaction with an event.  The net
\* expectation is computed for an over-refund too, and is then negative.
RefundReports(captured, events) ==
  {LET refunded == Refunded(events, txn)
   IN  IF txn \in DOMAIN captured
       THEN [txn |-> txn, refunded |-> refunded, net |-> {captured[txn] - refunded},
             classification |-> RefundClass(captured[txn], refunded)]
       ELSE [txn |-> txn, refunded |-> refunded, net |-> {}, classification |-> "unknown"]
   : txn \in {events[i].txn : i \in DOMAIN events}}

-----------------------------------------------------------------------------
(* fx_reconciliation.py.  The gateway amount is in whole units of its      *)
(* currency, rates in paise per unit and the markup in tenths of a percent *)
(* (10 basis points), so that products stay below 2^31.                    *)

\* round(..., 2), where no tie occurs.
Rounded(n, d) == (n + d \div 2) \div d

Converted(fx, rate) == Rounded(fx.units * rate * (1000 - fx.markup), 1000)

\* Variant with a bug: the low end is excluded.
WithinBandOpen(fx) ==
  /\ Converted(fx, fx.min) < fx.settled
  /\ fx.settled <= Converted(fx, fx.max) + AMOUNT_EPSILON

WithinBand(fx) ==
  /\ Converted(fx, fx.min) - AMOUNT_EPSILON <= fx.settled
  /\ fx.settled <= Converted(fx, fx.max) + AMOUNT_EPSILON

\* reconcile_fx_transaction.  The implied rate is shown to a human only.
FxStatus(fx) ==
  IF fx.from = fx.to THEN "not_a_currency_mismatch"
  ELSE IF fx.min > fx.max THEN "invalid_rate_band"
  ELSE IF WithinBand(fx) THEN "matched_within_rate_band" ELSE "rate_implausible"

-----------------------------------------------------------------------------
(* The gate of api/app.py and api/auth.py                                  *)

\* limit_request_body_size looks at the declared length only: a request that
\* declares none, or one that is not a number, passes.
TooLarge(declared) == declared = "over_limit"

\* require_api_key: keys is what API_KEYS holds, empty when it is not set.
Authorized(keys, key) ==
  IF keys = {} THEN 200
  ELSE IF key = "none" THEN 401 ELSE IF key \notin keys THEN 403 ELSE 200

\* The middleware answers before any dependency runs.
Gate(headers, keys) == IF TooLarge(headers.length) THEN 413 ELSE Authorized(keys, headers.key)
=============================================================================
