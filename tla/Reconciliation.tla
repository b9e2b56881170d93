--------------------------- MODULE Reconciliation ---------------------------
(***************************************************************************)
(* One reconciliation run: validate_input and run_deterministic_stage      *)
(* (agent/matcher.py), the demo sample (build_demo_sample), the agent      *)
(* stage (agent/react_loop.py) with its verifier, and the annotation       *)
(* passes, in the order _run_pipeline (api/jobs.py) calls them.            *)
(*                                                                         *)
(* The LLM is the environment: it may answer anything at any step.  What   *)
(* its answers do to the run is the code's business and is modelled whole; *)
(* search tools, nudges and error messages only feed the conversation, so  *)
(* they count as a step of the budget and nothing else.                    *)
(***************************************************************************)
EXTENDS Matching, Functions

CONSTANTS
  Batches,     \* the inputs a run may have
  Invented,    \* UTRs the LLM makes up, in no bank statement
  AgentTypes   \* exception types the LLM may report, strings of its choice

\* A batch: gateway and bank are sequences, window and threshold the merchant's
\* date window and escalation threshold or the defaults, sample the size asked
\* for, or 0 for all.
IsSequence(s) == s \in Seq({s[k] : k \in DOMAIN s})

ASSUME BatchAssumption ==
  \A b \in Batches :
    /\ IsSequence(b.gateway)
    /\ \A i \in DOMAIN b.gateway : b.gateway[i].net \in Int /\ b.gateway[i].date \in Int
    /\ IsSequence(b.bank)
    /\ \A k \in DOMAIN b.bank : b.bank[k].amount \in Int /\ b.bank[k].date \in Int
    /\ b.sample \in Nat

MAX_STEPS == 6

VARIABLES
  batch,
  phase,       \* "validate", "deterministic", "agent", "done", "raised"
  next,        \* position of the next gateway record for the deterministic stage
  pool,        \* positions of unclaimed bank records
  matched,     \* decisions of kind matched, in order
  exceptions,  \* decisions of kind exception, in order
  queue,       \* positions of the gateway records left for the agent, in order
  step         \* LLM calls made for the head of the queue

vars == <<batch, phase, next, pool, matched, exceptions, queue, step>>

gateway == batch.gateway
bank == batch.bank

Utrs == {bank[k].utr : k \in DOMAIN bank}

\* checked: positions the arithmetic looked at; utrs: what the record says.
\* They are kept apart because the agent's record takes utrs from the LLM.
Matched(i, utrs, checked, method, verifier) ==
  [txn |-> gateway[i].txn, status |-> "matched", utrs |-> utrs,
   checked |-> checked, method |-> method, verifier |-> verifier, type |-> "none"]

Exception(i, type) ==
  [txn |-> gateway[i].txn, status |-> "exception", utrs |-> {},
   checked |-> {}, method |-> "none", verifier |-> "none", type |-> type]

Decisions == matched \o exceptions

Init ==
  /\ batch \in Batches
  /\ phase = "validate"
  /\ next = 1
  /\ pool = DOMAIN batch.bank
  /\ matched = <<>>
  /\ exceptions = <<>>
  /\ queue = <<>>
  /\ step = 0

-----------------------------------------------------------------------------
(* The deterministic stage.                                                *)

ValidInput ==
  /\ IsInjective([i \in DOMAIN gateway |-> gateway[i].txn])
  /\ IsInjective([k \in DOMAIN bank |-> bank[k].utr])

ValidateInput ==
  /\ phase = "validate"
  /\ phase' = IF ValidInput THEN "deterministic" ELSE "raised"
  /\ UNCHANGED <<batch, next, pool, matched, exceptions, queue, step>>

\* Variant with a bug: the pool is not updated.
WithoutNone(ks, utrs) == ks

Without(ks, utrs) == {k \in ks : bank[k].utr \notin utrs}

Resolve ==
  /\ phase = "deterministic"
  /\ next <= Len(gateway)
  /\ next' = next + 1
  /\ LET explanations == Explanations(gateway[next], bank, pool, batch.window)
         result == Resolution(explanations)
         chosen == UNION explanations
         utrs == {bank[k].utr : k \in chosen}
     IN  \/ /\ result = "matched"
            /\ matched' = Append(matched, Matched(next, utrs, chosen, "deterministic", "none"))
            /\ pool' = Without(pool, utrs)
            /\ UNCHANGED <<exceptions, queue>>
         \/ /\ result = "exception"
            /\ exceptions' = Append(exceptions, Exception(next, "AMBIGUOUS_MULTIPLE_CANDIDATES"))
            /\ UNCHANGED <<matched, pool, queue>>
         \/ /\ result = "needs_agent"
            /\ queue' = Append(queue, next)
            /\ UNCHANGED <<matched, exceptions, pool>>
  /\ UNCHANGED <<batch, phase, step>>

-----------------------------------------------------------------------------
(* Between the stages: a demo run keeps a sample biased towards records    *)
(* for the agent, and drops the deterministic exceptions.                  *)

IsDemo == batch.sample > 0 /\ batch.sample < Len(gateway)

Least(S) == CHOOSE x \in S : \A y \in S : x <= y

\* Variant with a bug: the floor of two may exceed the sample size.
AgentWantUncapped(size, waiting) ==
  Least({IF size \div 3 > 2 THEN size \div 3 ELSE 2, waiting})

AgentWant(size, waiting) ==
  Least({IF size \div 3 > 2 THEN size \div 3 ELSE 2, waiting, size})

Take(seq, n) == SubSeq(seq, 1, Least({n, Len(seq)}))

StartAgentStage ==
  /\ phase = "deterministic"
  /\ next > Len(gateway)
  /\ phase' = "agent"
  /\ IF IsDemo
     THEN LET want == AgentWant(batch.sample, Len(queue))
          IN  /\ queue' = Take(queue, want)
              /\ matched' = Take(matched, batch.sample - want)
              /\ exceptions' = <<>>
     ELSE UNCHANGED <<queue, matched, exceptions>>
  /\ UNCHANGED <<batch, next, pool, step>>

-----------------------------------------------------------------------------
(* The agent stage: one LLM answer at a time for the head of the queue.    *)

Asking == phase = "agent" /\ queue # <<>>

\* The head of the queue is decided; the next record starts a fresh budget.
Settle ==
  /\ queue' = Tail(queue)
  /\ step' = 0
  /\ UNCHANGED <<batch, phase, next>>

\* Variants with a bug: a record whose budget is spent is dropped; or starts over.
ContinueDrops ==
  /\ Asking
  /\ IF step + 1 < MAX_STEPS
     THEN /\ step' = step + 1
          /\ UNCHANGED <<batch, phase, next, pool, matched, exceptions, queue>>
     ELSE /\ Settle
          /\ UNCHANGED <<pool, matched, exceptions>>

ContinueForever ==
  /\ Asking
  /\ step' = (step + 1) % MAX_STEPS
  /\ UNCHANGED <<batch, phase, next, pool, matched, exceptions, queue>>

\* No tool call, a search, malformed arguments or an unknown tool: the
\* conversation goes on while the budget lasts.
Continue ==
  /\ Asking
  /\ IF step + 1 < MAX_STEPS
     THEN /\ step' = step + 1
          /\ UNCHANGED <<batch, phase, next, pool, matched, exceptions, queue>>
     ELSE /\ exceptions' = Append(exceptions, Exception(Head(queue), "NO_CANDIDATE_FOUND"))
          /\ Settle
          /\ UNCHANGED <<pool, matched>>

\* Variant with a bug: the proposal is looked up in the whole statement.
ProposeFromStatement ==
  /\ Asking
  /\ \E utrs \in SUBSET Utrs, answer \in {"accept", "reject"} :
       LET i == Head(queue)
           proposed == {k \in DOMAIN bank : bank[k].utr \in utrs}
           verdict == Verdict(gateway[i], bank, proposed, answer)
       IN  IF verdict.accepted
           THEN /\ matched' = Append(matched,
                     Matched(i, utrs, proposed, "agent_verified", verdict.method))
                /\ pool' = Without(pool, utrs)
                /\ UNCHANGED exceptions
           ELSE /\ exceptions' = Append(exceptions, Exception(i, "VERIFIER_REJECTED"))
                /\ UNCHANGED <<matched, pool>>
  /\ Settle

\* propose_match: the verifier sees the proposed records that are in the
\* pool; an accepted match is recorded with the UTRs as proposed.
ProposeMatch ==
  /\ Asking
  /\ \E utrs \in SUBSET (Utrs \cup Invented), answer \in {"accept", "reject"} :
       LET i == Head(queue)
           proposed == {k \in pool : bank[k].utr \in utrs}
           verdict == Verdict(gateway[i], bank, proposed, answer)
       IN  IF verdict.accepted
           THEN /\ matched' = Append(matched,
                     Matched(i, utrs, proposed, "agent_verified", verdict.method))
                /\ pool' = Without(pool, utrs)
                /\ UNCHANGED exceptions
           ELSE /\ exceptions' = Append(exceptions, Exception(i, "VERIFIER_REJECTED"))
                /\ UNCHANGED <<matched, pool>>
  /\ Settle

\* report_exception: the type is recorded as the LLM wrote it.
ReportException ==
  /\ Asking
  /\ \E type \in AgentTypes :
       exceptions' = Append(exceptions, Exception(Head(queue), type))
  /\ Settle
  /\ UNCHANGED <<matched, pool>>

\* The client gives up (retries spent), or an argument has a shape the code
\* does not expect: the exception escapes and the run fails.
AgentRaises ==
  /\ Asking
  /\ phase' = "raised"
  /\ UNCHANGED <<batch, next, pool, matched, exceptions, queue, step>>

Finish ==
  /\ phase = "agent"
  /\ queue = <<>>
  /\ phase' = "done"
  /\ UNCHANGED <<batch, next, pool, matched, exceptions, queue, step>>

Answer == Continue \/ ProposeMatch \/ ReportException \/ AgentRaises

Next == ValidateInput \/ Resolve \/ StartAgentStage \/ Answer \/ Finish

Spec == Init /\ [][Next]_vars

\* The worker thread runs, and every LLM call returns or raises.
FairSpec == Spec /\ WF_vars(Next)

-----------------------------------------------------------------------------
Index(d) == CHOOSE i \in DOMAIN gateway : gateway[i].txn = d.txn

DecidedBy(i) == {n \in DOMAIN Decisions : Decisions[n].txn = gateway[i].txn}

TypeOK ==
  /\ batch \in Batches
  /\ phase \in {"validate", "deterministic", "agent", "done", "raised"}
  /\ next \in 1..(Len(gateway) + 1)
  /\ pool \subseteq DOMAIN bank
  /\ step \in 0..(MAX_STEPS - 1)
  /\ queue \in Seq(DOMAIN gateway)
  /\ \A d \in {Decisions[n] : n \in DOMAIN Decisions} :
       /\ d.checked \subseteq DOMAIN bank
       /\ d.utrs \subseteq Utrs \cup Invented

\* No settlement row supports two matches, and none that supports a match is
\* still on offer (run_deterministic_stage and run_agent_stage: "later records
\* can't double-claim the same settlement row").
DisjointClaims ==
  \A m, n \in DOMAIN matched :
    /\ matched[m].checked \cap pool = {}
    /\ m # n => matched[m].checked \cap matched[n].checked = {}

\* A full run loses no record and decides none twice: at every moment, the one
\* at which the agent raises included, each record is still to come, waiting
\* for the agent, or decided, exactly once.
Accounted ==
  ~IsDemo =>
    \A i \in DOMAIN gateway :
      LET waiting == {n \in DOMAIN queue : queue[n] = i}
      IN  (IF i >= next THEN 1 ELSE 0) + Cardinality(waiting)
            + Cardinality(DecidedBy(i)) = 1

\* A deterministic match was not an arbitrary pick, and no later claim makes
\* it look like one: among what is left, nothing else explains its amount.
NoRivalExplanation ==
  \A n \in DOMAIN matched :
    LET d == matched[n]
    IN  d.method = "deterministic" =>
          Explanations(gateway[Index(d)], bank, pool \cup d.checked, batch.window)
            = {d.checked}

\* What nobody has to review is right by arithmetic and by reference, whoever
\* proposed it: an LLM's judgment alone never escapes review.
UnreviewedIsExact ==
  phase = "done" =>
    \A n \in DOMAIN Decisions :
      LET d == Decisions[n]
          g == gateway[Index(d)]
      IN  ~RequiresHumanReview(d, g.net, batch.threshold) =>
            /\ d.status = "matched"
            /\ Near(Total(bank, d.checked), g.net)
            /\ \E k \in d.checked : Mentions(g, bank[k])

\* The verifier lets no LLM, and no two of them, talk it into a match that
\* pays out more than the transaction or settles before it.
AgentMatchesArePlausible ==
  \A n \in DOMAIN matched :
    LET d == matched[n]
        g == gateway[Index(d)]
        total == Total(bank, d.checked)
    IN  d.method = "agent_verified" =>
          /\ d.checked # {}
          /\ total <= g.net + AMOUNT_EPSILON
          /\ ~GrossMismatch(g.net, total)
          /\ \A k \in d.checked : bank[k].date >= g.date

\* A demo run takes on no more records than it was asked for, and if any
\* record needs the agent it takes one of those (build_demo_sample: "biased
\* toward including agent-routed records").
DemoSample ==
  [][phase = "deterministic" /\ phase' = "agent" /\ IsDemo =>
       /\ Len(matched') + Len(exceptions') + Len(queue') <= batch.sample
       /\ queue # <<>> => queue' # <<>>]_vars

\* Every run comes to an end, whatever the LLM says.
Terminates == <>(phase \in {"done", "raised"})

\* "Later records in the batch can't double-claim a settlement an earlier one
\* already matched": no UTR is recorded for two transactions.
UtrsClaimedOnce ==
  \A m, n \in DOMAIN matched :
    m # n => matched[m].utrs \cap matched[n].utrs = {}
=============================================================================
