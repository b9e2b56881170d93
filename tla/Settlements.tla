----------------------------- MODULE Settlements -----------------------------
(***************************************************************************)
(* The life of a case that is reconciled outside the runs: api/app.py's    *)
(* five reconcile endpoints over Reconcilers.  The facts of a case move (a *)
(* refund is made, a transfer released or reversed, a dispute decided, a   *)
(* record or a credit line added, a rate band revised) and the client      *)
(* posts the whole case after each move; the server keeps nothing.  A post *)
(* the server refuses leaves the client with the last answer it got.       *)
(***************************************************************************)
EXTENDS Reconcilers

CONSTANTS Cases,       \* the cases a client can start from
          ApiKeys,     \* what API_KEYS holds
          Headers,     \* the headers a client can send: [length, key]
          Records,     \* batch records and credit lines that can be added
          RefundEvents, Transfers,
          Steps,       \* the sizes of a move of a rate band or markup, in paise or 0.1%
          MaxMoves     \* bounds the accepted posts of a behaviour

VARIABLES case,     \* the facts the last answer was about
          report,   \* that answer
          code,     \* the HTTP status of the last post
          moves     \* how many posts were accepted (bound)

vars == <<case, report, code, moves>>

-----------------------------------------------------------------------------
(* The endpoints                                                           *)

\* The request models' field constraints, and the ValueErrors that the handlers
\* turn into a 422 as well.
BatchesAccepted(c) == ~DuplicateBatch(c.lines)

SplitAccepted(c) ==
  /\ c.net > 0 /\ c.commission >= 0
  /\ \A i \in DOMAIN c.transfers :
       c.transfers[i].amount >= 0 /\ c.transfers[i].status \in TransferStatuses

ChargebackAccepted(c) ==
  c.net > 0 /\ c.disputed > 0 /\ c.fee >= 0 /\ c.status \in DisputeStatuses

RefundsAccepted(c) == \A i \in DOMAIN c.events : c.events[i].amount > 0

FxAccepted(c) == c.units > 0 /\ c.settled > 0 /\ c.min > 0 /\ c.max > 0 /\ c.markup >= 0

Acceptable(c) ==
  CASE c.kind = "batches"    -> BatchesAccepted(c)
    [] c.kind = "split"      -> SplitAccepted(c)
    [] c.kind = "chargeback" -> ChargebackAccepted(c)
    [] c.kind = "refunds"    -> RefundsAccepted(c)
    [] c.kind = "fx"         -> FxAccepted(c)

\* The request models' field types, amounts in whole paise.
BatchItems == [batch : STRING, amount : Int]

\* "unheard_of" stands for every other status.
SentStatuses == TransferStatuses \cup {"unheard_of"}

TransferItems == [amount : Int, status : SentStatuses]

RefundItems == [txn : STRING, amount : Int]

WellFormed(c) ==
  \/ /\ c.kind = "batches" /\ DOMAIN c = {"kind", "gateway", "lines", "expected"}
     /\ c.gateway \in Seq(BatchItems) /\ c.lines \in Seq(BatchItems)
  \/ /\ c.kind = "split" /\ DOMAIN c = {"kind", "net", "transfers", "commission", "expected"}
     /\ {c.net, c.commission} \subseteq Int /\ c.transfers \in Seq(TransferItems)
  \/ /\ c.kind = "chargeback" /\ DOMAIN c = {"kind", "net", "status", "disputed", "fee", "expected"}
     /\ {c.net, c.disputed, c.fee} \subseteq Int
  \/ /\ c.kind = "refunds" /\ DOMAIN c = {"kind", "captured", "events", "expected"}
     /\ c.captured \in [DOMAIN c.captured -> Int] /\ c.events \in Seq(RefundItems)
  \/ /\ c.kind = "fx"
     /\ DOMAIN c = {"kind", "units", "from", "settled", "to", "min", "max", "markup", "expected"}
     /\ {c.units, c.settled, c.min, c.max, c.markup} \subseteq Int

\* A client starts from a case the server has accepted.
ASSUME SettlementsAssumption ==
  /\ \A c \in Cases : WellFormed(c) /\ Acceptable(c)
  /\ Records \subseteq BatchItems /\ Transfers \subseteq TransferItems
  /\ RefundEvents \subseteq RefundItems
  /\ Steps \subseteq Nat /\ MaxMoves \in Nat

\* reconcile_batches_endpoint: lines with a batch id are checked against their
\* batch, each other line against the whole unbatched pool.
BatchesAnswer(c) ==
  [batches |-> BatchReports(c.gateway, c.lines),
   fallback |-> {SubsetMatch(c.gateway, c.lines[i].amount) : i \in Unbatched(c.lines)}]

\* reconcile_refunds_endpoint: against the transactions the server knows.
RefundsAnswer(c) == RefundReports(c.captured, c.events)

\* reconcile_fx_endpoint
FxAnswer(c) == [status |-> FxStatus(c)]

Answer(c) ==
  CASE c.kind = "batches"    -> BatchesAnswer(c)
    [] c.kind = "split"      -> SplitReport(c.net, c.transfers, c.commission)
    [] c.kind = "chargeback" -> ChargebackReport(c.net, c)
    [] c.kind = "refunds"    -> RefundsAnswer(c)
    [] c.kind = "fx"         -> FxAnswer(c)

-----------------------------------------------------------------------------
Init == /\ case \in Cases
        /\ report = Answer(case)
        /\ code = 200
        /\ moves = 0

Post(new) ==
  \E h \in Headers :
    LET gate == Gate(h, ApiKeys)
        reply == IF gate # 200 THEN gate ELSE IF Acceptable(new) THEN 200 ELSE 422
    IN  /\ moves < MaxMoves
        /\ code' = reply
        /\ IF reply = 200
           THEN case' = new /\ report' = Answer(new) /\ moves' = moves + 1
           ELSE UNCHANGED <<case, report, moves>>

\* A moved case is no longer the generator's.
Moved(c) == [c EXCEPT !.expected = {}]

AddRecord == /\ case.kind = "batches"
             /\ \E r \in Records : Post(Moved([case EXCEPT !.gateway = Append(@, r)]))

AddLine == /\ case.kind = "batches"
           /\ \E l \in Records : Post(Moved([case EXCEPT !.lines = Append(@, l)]))

AddTransfer == /\ case.kind = "split"
               /\ \E t \in Transfers : Post(Moved([case EXCEPT !.transfers = Append(@, t)]))

\* A hold is released, a transfer clawed back, a status mistyped.
MoveTransfer ==
  /\ case.kind = "split"
  /\ \E i \in DOMAIN case.transfers, s \in SentStatuses :
       Post(Moved([case EXCEPT !.transfers[i].status = s]))

MoveDispute == /\ case.kind = "chargeback"
               /\ \E s \in DisputeStatuses \cup {"closed"} : Post(Moved([case EXCEPT !.status = s]))

Refund == /\ case.kind = "refunds"
          /\ \E e \in RefundEvents : Post(Moved([case EXCEPT !.events = Append(@, e)]))

Rerate == /\ case.kind = "fx"
          /\ \E down, up, more \in Steps :
               Post(Moved([case EXCEPT !.min = @ - down, !.max = @ + up, !.markup = @ + more]))

Next == AddRecord \/ AddLine \/ AddTransfer \/ MoveTransfer \/ MoveDispute \/ Refund \/ Rerate

Spec == Init /\ [][Next]_vars

-----------------------------------------------------------------------------
(* Properties                                                              *)

\* What the answer says, in the words of the generators.
Verdicts ==
  CASE case.kind = "batches" -> {<<r.batch, r.matched>> : r \in report.batches}
                                \cup {<<f.status, f.amount>> : f \in report.fallback}
    [] case.kind = "chargeback" -> {report.classification}
    [] case.kind = "refunds" -> {<<r.txn, r.classification>> : r \in report}
    [] OTHER -> {report.status}

\* Each case a data generator constructs is classified as its comment says,
\* also when its parts share one request.
ScenariosAreRecognised == case.expected # {} => Verdicts = case.expected

\* A gateway record is explained on one path only: in the report of one batch
\* or in the pool the fallback searches, never in both and never in neither.
RecordsHaveOnePath ==
  case.kind = "batches" =>
    \A i \in DOMAIN case.gateway :
      LET batches == {r.batch : r \in {b \in report.batches : i \in b.members}}
          candidate == \E f \in report.fallback : i \in UNION f.groups
      IN  /\ Cardinality(batches) + (IF i \in Unbatched(case.gateway) THEN 1 ELSE 0) = 1
          /\ candidate => batches = {}

\* How sure a search is; a search that is refused says nothing.
Doubt == [no_match_found |-> 0, candidate_match |-> 1, ambiguous |-> 2, pool_too_large |-> 3]

\* More records in the pool never make a credit line's search surer: a group
\* that was found stays found, an ambiguity is never resolved by more data.
DoubtOnlyGrows ==
  [][case.kind = "batches" =>
       \A f \in report.fallback, g \in report'.fallback :
         f.amount = g.amount => Doubt[f.status] <= Doubt[g.status]]_vars

\* Releasing a hold or clawing a transfer back moves money that was already
\* split: it neither opens nor closes a gap.
MovesKeepTheGap ==
  [][case.kind = "split" /\ Len(case'.transfers) = Len(case.transfers)
       => report'.gap = report.gap /\ (report'.status = "mismatch" <=> report.status = "mismatch")]_vars

\* A dispute moves the disputed amount and nothing else: however it goes from
\* status to status, what is withheld and what the merchant should hold add up
\* to the same sum, and an impossible dispute stays impossible.
DisputeMovesOneAmount ==
  [][case.kind = "chargeback" =>
       LET whole(c, r) == {b + (IF c.status = "won" THEN 0 ELSE c.disputed) : b \in r.balance}
       IN  whole(case', report') = whole(case, report)]_vars

Severity == [partial_refund |-> 1, full_refund |-> 2, over_refunded |-> 3, unknown |-> 4]

\* Refund events only add up: a transaction's classification goes from partial
\* to full to over, never back, and no transaction leaves the report.
RefundsOnlyEscalate ==
  [][case.kind = "refunds" =>
       \A r \in report : \E s \in report' :
         s.txn = r.txn /\ Severity[r.classification] <= Severity[s.classification]]_vars

\* Widening a rate band under the same markup never loses a match.  A markup
\* above 100%, which the endpoint accepts, turns the band around.
WiderBandsKeepTheMatch ==
  [][case.kind = "fx" /\ case'.markup = case.markup /\ case.markup <= 1000
       /\ report.status = "matched_within_rate_band" => report'.status = report.status]_vars

\* Facts that are added move an answer one way, however they are spread over
\* posts: searches lose certainty, refunds escalate, a band keeps its matches.
AnswersAreMonotone == DoubtOnlyGrows /\ RefundsOnlyEscalate /\ WiderBandsKeepTheMatch

\* Money that was accounted for before a status changed is accounted for after:
\* a status says where it is, never how much.
MovedMoneyIsConserved == MovesKeepTheGap /\ DisputeMovesOneAmount
=============================================================================
