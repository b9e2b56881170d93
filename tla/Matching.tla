------------------------------ MODULE Matching ------------------------------
(***************************************************************************)
(* The pure rules of reconciliation: agent/matcher.py (try_resolve),       *)
(* agent/verifier.py (deterministic_precheck), agent/escalation.py and     *)
(* agent/confidence.py.                                                    *)
(*                                                                         *)
(* Amounts are whole paise, so the code's float tolerance of 0.02 is       *)
(* exactly 2; dates are day numbers.  A gateway record is                  *)
(*   [txn, token, net, date]: token is what ref_token(order_id) yields;    *)
(* a bank record is                                                        *)
(*   [utr, refs, amount, date]: refs are the tokens its normalized         *)
(*   narration contains.                                                   *)
(* A bank statement is a sequence of bank records; the rules work on sets  *)
(* of its positions.                                                       *)
(***************************************************************************)
EXTENDS Integers, Sequences, FiniteSets, FiniteSetsExt

AMOUNT_EPSILON == 2
DATE_WINDOW_DAYS == 7

\* verifier.py: its own window, and the two bounds of a gross mismatch.
VERIFIER_WINDOW_DAYS == 3
GROSS_MISMATCH_PCT == 15
GROSS_MISMATCH_ABSOLUTE_FLOOR == 5000

ALL_TYPES == {"NO_CANDIDATE_FOUND", "AMBIGUOUS_MULTIPLE_CANDIDATES",
              "AMOUNT_MISMATCH_UNEXPLAINED", "VERIFIER_REJECTED"}

Near(x, y) == x - y <= AMOUNT_EPSILON /\ y - x <= AMOUNT_EPSILON

Total(bank, ks) == MapThenSumSet(LAMBDA k : bank[k].amount, ks)

Within(g, b, days) == b.date - g.date \in 0..days

Mentions(g, b) == g.token \in b.refs

-----------------------------------------------------------------------------
(* matcher.py                                                              *)

\* Every way the reference-matched, dated candidates in the pool explain the
\* net amount: one record alone or, when none does, two together.
Dated(g, bank, pool, window) ==
  {k \in pool : Mentions(g, bank[k]) /\ Within(g, bank[k], window)}

Explanations(g, bank, pool, window) ==
  LET dated == Dated(g, bank, pool, window)
      exact(ks) == Near(Total(bank, ks), g.net)
      singles == {ks \in kSubset(1, dated) : exact(ks)}
  IN  IF singles # {} THEN singles ELSE {ks \in kSubset(2, dated) : exact(ks)}

\* Variant with a bug: several explanations count as one.
ResolutionFirst(explanations) ==
  IF explanations = {} THEN "needs_agent" ELSE "matched"

\* try_resolve: one explanation is a match, several are an exception, none is
\* for the agent.
Resolution(explanations) ==
  IF explanations = {} THEN "needs_agent"
  ELSE IF Cardinality(explanations) = 1 THEN "matched" ELSE "exception"

-----------------------------------------------------------------------------
(* verifier.py, on the proposed records ks that are in the pool            *)

OutOfWindow(g, bank, ks) ==
  \E k \in ks : ~Within(g, bank[k], VERIFIER_WINDOW_DAYS)

GrossMismatch(net, total) ==
  /\ 100 * (net - total) > GROSS_MISMATCH_PCT * net
  /\ net - total > GROSS_MISMATCH_ABSOLUTE_FLOOR

\* Variants with a bug: an exact amount is enough without the reference; a
\* total above the net amount is left to the LLM.
PrecheckAmountOnly(g, bank, ks) ==
  LET total == Total(bank, ks)
  IN  IF OutOfWindow(g, bank, ks) \/ total > g.net + AMOUNT_EPSILON THEN "reject"
      ELSE IF Near(total, g.net) THEN "accept"
      ELSE IF GrossMismatch(g.net, total) THEN "reject" ELSE "ask"

PrecheckUncapped(g, bank, ks) ==
  LET total == Total(bank, ks)
  IN  IF OutOfWindow(g, bank, ks) THEN "reject"
      ELSE IF Near(total, g.net) /\ \E k \in ks : Mentions(g, bank[k]) THEN "accept"
      ELSE IF GrossMismatch(g.net, total) THEN "reject" ELSE "ask"

\* deterministic_precheck: "accept", "reject", or "ask" the LLM.
Precheck(g, bank, ks) ==
  LET total == Total(bank, ks)
      impossible == OutOfWindow(g, bank, ks) \/ total > g.net + AMOUNT_EPSILON
      confirmed == Near(total, g.net) /\ \E k \in ks : Mentions(g, bank[k])
  IN  IF impossible THEN "reject"
      ELSE IF confirmed THEN "accept"
      ELSE IF GrossMismatch(g.net, total) THEN "reject" ELSE "ask"

\* verify: the tier that decides, for an answer the LLM would give.
Verdict(g, bank, ks, answer) ==
  LET precheck == IF ks = {} THEN "reject" ELSE Precheck(g, bank, ks)
  IN  IF precheck = "ask"
      THEN [accepted |-> answer = "accept", method |-> "llm"]
      ELSE [accepted |-> precheck = "accept", method |-> "deterministic"]

-----------------------------------------------------------------------------
(* confidence.py and escalation.py, on a decision record                   *)

Confidence(d) ==
  IF d.status = "matched" /\ "deterministic" \in {d.method, d.verifier} THEN "high"
  ELSE IF d.status = "matched" THEN "medium" ELSE "low"

RequiresHumanReview(d, net, threshold) ==
  net >= threshold \/ Confidence(d) # "high"
=============================================================================
