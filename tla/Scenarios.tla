------------------------------ MODULE Scenarios ------------------------------
(***************************************************************************)
(* The hand-constructed cases of data/*_generator.py, each with the answer *)
(* its comment announces.  Amounts are in paise.                           *)
(***************************************************************************)
EXTENDS Reconcilers

\* data/batch_generator.py: the statement labels in order are those of the
\* three batch ids and of the two credit lines without one.
BatchGateway ==
  LET records(b, amounts) == [i \in DOMAIN amounts |-> [batch |-> b, amount |-> amounts[i]]]
  IN  records("clean", <<100000, 250050, 75025, 320000>>)
      \o records("gap", <<500000, 120000>>)
      \o records("pending", <<80000, 150000>>)
      \o records("none", <<40000, 60000, 25000, 999999>>)
      \o records("none", <<110000, 120000, 115000, 115000>>)

BatchLines ==
  <<[batch |-> "clean", amount |-> 745075], [batch |-> "gap", amount |-> 610000],
    [batch |-> "none", amount |-> 125000], [batch |-> "none", amount |-> 230000]>>

BatchScenarios ==
  {[kind |-> "batches", gateway |-> BatchGateway, lines |-> BatchLines,
    expected |-> {<<"clean", TRUE>>, <<"gap", FALSE>>, <<"pending", FALSE>>,
                  <<"candidate_match", 125000>>, <<"ambiguous", 230000>>}]}

\* data/marketplace_generator.py
SplitScenarios ==
  LET case(net, transfers, commission, status) ==
        [kind |-> "split", net |-> net, transfers |-> transfers, commission |-> commission,
         expected |-> {status}]
      transfer(amount, status) == [amount |-> amount, status |-> status]
  IN  {case(1035000, <<transfer(950000, "settled"), transfer(47500, "settled")>>, 37500,
            "fully_reconciled"),
       case(500000, <<transfer(450000, "on_hold")>>, 50000, "pending_hold"),
       case(200000, <<transfer(180000, "reversed")>>, 20000, "reversal_accounted"),
       case(100000, <<transfer(85000, "settled")>>, 10000, "mismatch")}

\* data/chargeback_generator.py
ChargebackScenarios ==
  LET case(net, status, disputed, fee, class) ==
        [kind |-> "chargeback", net |-> net, status |-> status, disputed |-> disputed,
         fee |-> fee, expected |-> {class}]
  IN  {case(500000, "open", 500000, 25000, "in_flight"),
       case(300000, "won", 300000, 25000, "reversed"),
       case(200000, "lost", 200000, 25000, "finalized_debit"),
       case(1000000, "arbitration", 1000000, 50000, "in_flight"),
       case(100000, "open", 150000, 25000, "invalid_dispute")}

\* data/refund_generator.py, with the five sampled transactions' amounts (the
\* fifth has no event): a full and a partial refund, the same 70% twice, two
\* halves, and a transaction nobody knows.
RefundCaptured == [t1 |-> 100000, t2 |-> 50000, t3 |-> 80000, t4 |-> 75001]

RefundScenarios ==
  LET event(txn, amount) == [txn |-> txn, amount |-> amount]
  IN  {[kind |-> "refunds", captured |-> RefundCaptured,
        events |-> <<event("t1", 100000), event("t2", 20000), event("t3", 56000),
                     event("t3", 56000), event("t4", 37500), event("t4", 37501),
                     event("t9", 50000)>>,
        expected |-> {<<"t1", "full_refund">>, <<"t2", "partial_refund">>,
                      <<"t3", "over_refunded">>, <<"t4", "full_refund">>, <<"t9", "unknown">>}]}

\* data/fx_generator.py
FxScenarios ==
  LET case(units, from, settled, markup, status) ==
        [kind |-> "fx", units |-> units, from |-> from, settled |-> settled, to |-> "INR",
         min |-> 8250, max |-> 8350, markup |-> markup, expected |-> {status}]
  IN  {case(100, "USD", 830000, 0, "matched_within_rate_band"),
       case(100, "USD", 500000, 0, "rate_implausible"),
       case(5000, "INR", 500000, 0, "not_a_currency_mismatch"),
       case(100, "USD", 825000, 0, "matched_within_rate_band"),
       case(200, "USD", Rounded(200 * 8300 * 995, 1000), 5, "matched_within_rate_band")}

Scenarios ==
  BatchScenarios \cup SplitScenarios \cup ChargebackScenarios \cup RefundScenarios \cup FxScenarios
=============================================================================
