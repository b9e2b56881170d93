---------------------------- MODULE MCSettlements ----------------------------
(***************************************************************************)
(* Cases for TLC: those of the generators, and small ones made to cross    *)
(* the limits.  Where the code compares unrounded floats no two amounts    *)
(* are exactly 2 paise apart, so that the tolerance is decided.            *)
(***************************************************************************)
EXTENDS Settlements, Scenarios

R(b, amount) == [batch |-> b, amount |-> amount]

\* Adjustments can be negative; an empty batch id is none.
SmallPool == [i \in 1..4 |-> R(IF i = 2 THEN "" ELSE "none", <<1000, 2000, 3000, -500>>[i])]

\* Twelve unbatched records: one more and the search is refused.
FullPool == [i \in 1..12 |-> R("none", 1000 * i * i)]

SmallCases ==
  {[kind |-> "batches", gateway |-> g,
    lines |-> <<R("none", 3000), R("b1", 4000), R("", 4500)>>, expected |-> {}]
     : g \in {SmallPool, FullPool}}
  \cup {[kind |-> "refunds", captured |-> [t1 |-> 1000], events |-> <<>>, expected |-> {}],
        [kind |-> "split", net |-> 1000, commission |-> 100, expected |-> {},
         transfers |-> <<[amount |-> 400, status |-> "on_hold"], [amount |-> 0, status |-> "on_hold"]>>],
        [kind |-> "chargeback", net |-> 1000, status |-> "open", disputed |-> 1001, fee |-> 50,
         expected |-> {}],
        [kind |-> "fx", units |-> 10, from |-> "USD", settled |-> 80000, to |-> "INR",
         min |-> 8000, max |-> 8000, markup |-> 0, expected |-> {}],
        [kind |-> "fx", units |-> 10, from |-> "USD", settled |-> 1, to |-> "INR",
         min |-> 8000, max |-> 8100, markup |-> 999, expected |-> {}]}

AllCases == Scenarios \cup SmallCases

AllHeaders == {[length |-> "within", key |-> "k1"], [length |-> "absent", key |-> "wrong"],
               [length |-> "not_a_number", key |-> "none"], [length |-> "over_limit", key |-> "k1"]}

AllRecords == {R("none", 2000), R("none", 1500), R("", 100), R("b1", 1001), R("b1", 3000), R("clean", 5)}

AllRefunds == {[txn |-> t, amount |-> a] : t \in {"t1", "t9"}, a \in {0, 400, 599, 601}}

AllTransfers == {[amount |-> a, status |-> s] : a \in {-1, 501, 498}, s \in {"settled", "on_hold"}}
=============================================================================
