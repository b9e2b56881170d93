# ReconcLedge in TLA+

ReconcLedge reconciles a merchant's payment-gateway records with the rows of a
bank statement. A run first matches deterministically by reference, date and
amount, then hands what is left to an LLM agent whose proposals a verifier has
to accept; a FastAPI service runs reconciliations on background threads, keeps
their state in SQLite and streams their progress to a React frontend.

This directory specifies that program in TLA+, model-checks it with TLC and
proves parts of it with TLAPS. `PROJECT.json` is the index: which definition
models which lines (`map`), the runs, the mutated definitions each property is
known to reject (`mutants`), the hazards of the code and the properties aimed
at them, the findings and the theorems.

    tlc -workers 2 -config RunStoreFaults.cfg MCRunStore     # a run
    tlapm RunStoreProofs.tla                                 # a proof

Contents: 1 inventory, 2 modules, 3 runs, 4 proofs, 5 findings, 6 what is left
out, 7 plan.

## 1. Inventory

### Job store (`api/jobs.py`)

*State.* Tables `jobs`, `job_events`, `audit_log` in one SQLite file, reached
through ONE connection that all threads share, behind `_jobs_lock`. A statement
is visible to every thread at once and durable only at the next commit, no
matter who issues it; there is no rollback anywhere.

*Operations.* `create_job`, `start_job` (a daemon thread per run that executes
`_run_pipeline`), `_append_event`, `_record_audit_entries`, `_update`,
`get_job` and `list_jobs` (both run `_reap_stale_jobs` first), `get_audit_log`.

*Hard behaviour.* Worker threads, request threads and the event loop interleave
between critical sections. The reaper selects under the lock, releases it, and
updates under the lock again. A write can fail half-way through a critical
section; the process can die at any moment; threads die with it and no run is
resumed. A run whose thread is merely slow is reaped and then goes on.

*Correct when* results never become visible before the audit log is complete;
progress never runs ahead of the event log; a run is in the audit log wholly or
not at all; nothing durable is taken back; a completed run stays completed; no
run stays pending or running for ever.

### Event stream (`stream_run` in `api/app.py`)

*State.* Per connection, the generator's cursor into the run's event list; all
generators share the event loop. *Operations.* Check that the run exists, poll
`get_job`, send the new events, send "done" on a terminal status, sleep.
*Hard behaviour.* The polls fall anywhere between the worker's writes; the
poll itself reaps, may raise, and blocks the loop; the client may leave.
*Correct when* the client gets each event once and in order, is told
"completed" only after all of them, and the connection ends.

### Deterministic matcher, demo sample, agent loop, verifier, annotation

(`agent/matcher.py`, `build_demo_sample` in `api/jobs.py`,
`agent/react_loop.py`, `agent/tools.py`, `agent/verifier.py`,
`agent/escalation.py`, `agent/confidence.py`)

*State.* The pool of unclaimed bank rows, the decisions so far, the queue of
records for the agent and the step budget of the record at its head.
*Operations.* `validate_input`; `try_resolve` per record; optional sampling;
one LLM answer at a time (no tool call, search, `propose_match`,
`report_exception`, or an exception); `deterministic_precheck` and the second
LLM opinion; `annotate_escalation` and `annotate_confidence`.
*Hard behaviour.* Claims are greedy and in file order; the LLM can propose UTRs
that are claimed or do not exist; amounts meet three tolerances and three
different date windows; an LLM may never decide.
*Correct when* no row supports two matches, every record is decided exactly
once, a deterministic match is the only explanation of its amount, nothing an
LLM merely judged escapes human review, a demo run keeps to its size, and every
run ends.

### LLM clients (`agent/llm_client.py`)

*FallbackClient*: consecutive failures, tripped, calls since the last probe,
under a lock that is NOT held during the provider call. *OpenRouterClient*: a
cap on completion tokens learned from refusals, shared without a lock, and a
loop with two retry budgets. *GroqClient*: usage totals incremented without a
lock, and a loop with one retry budget. `_run_pipeline` reports per-run usage
as a difference of two readings of the totals.
*Hard behaviour.* Calls end in another order than they began and report on a
primary, a cap or totals that have changed since.
*Correct when* the circuit is open exactly after enough failures in a row, a
recovered primary is found and a dead one avoided, probes are spaced, the cap
stays viable and only falls, every call ends, and a run reports its own usage.

### Merchant configuration

(`agent/merchant_config.py`, two handlers of `api/app.py`, `pages/Merchants.tsx`)

*State.* A table under a lock; the form's fields, whether they are shown, its
GET and its POST in flight. *Operations.* `register_merchant_config` (replaces
the row), `get_merchant_config`, `is_merchant_known`; load, edit, save.
*Hard behaviour.* GET asks two questions in two critical sections; other
callers post between a load and the save; the id can be edited while a request
is out; an answer can be lost after the row was written; the process restarts.
*Correct when* "known" never comes with the fallback's values; a save resets nothing the user did not edit and reaches the
merchant whose values were loaded.

### Standalone reconcilers and the gate in front of them

(`agent/batch_settlement.py`, `marketplace_settlement.py`,
`chargeback_matcher.py`, `refund_matcher.py`, `fx_reconciliation.py`, their
endpoints in `api/app.py`, the body limit, `api/auth.py`)

*State.* None on the server; a client posts a case again whenever its facts
have moved. *Hard behaviour.* Tolerances, rounding, a bounded search, optional
ids, statuses that change after the money was split, refused posts.
*Correct when* the answers to successive versions of a case agree: refunds only
escalate, more data never makes a search surer, a dispute moves one amount, a
hold released opens no gap, a wider band loses no match.

### The browser

(`RunsContext.tsx` with `runTransitions.ts`, `RunDetail.tsx`, `AuthContext.tsx`
with `Settings.tsx`, `api/client.ts`)

*State.* The statuses of the last poll; the state of the run page and the
effects that still await something; the key in memory and in the session's
storage, the status shown. *Hard behaviour.* The poll's timer does not wait for
answers, which overtake each other or are lost; the run page survives a change
of run while the requests of the run before are out; probes, submitted keys and
clears overlap, and the browser may forbid the storage.
*Correct when* what is shown belongs to the run in the address bar, an end is
told once, only an accepted key survives a reload, and the status is that of
the key that is held.

### The other parts

| Part | State and operations |
|---|---|
| Metrics (`eval/metrics.py`, `data/synthetic_generator.py`) | pure; a batch with its truth, and which matches are wrong |
| Frontend presentation, other generators, scripts | no state of their own in the running system |

### How they interact

POST /runs creates the row and starts the thread; the thread runs the matcher,
the sample and the agent stage, which calls the LLM clients (shared by all
runs), and writes each decision to the store through `_append_event`; at the
end it annotates, writes the audit batch and publishes the results. Readers
and streams see the run only through the store, and every read may reap. A run
takes its window and its escalation threshold from its merchant's row, in one
read. The browser sees runs through the list, the status, the results and the
stream; its three stateful parts share nothing but the server. Every request
passes the body limit and the key check before its handler.

## 2. Modules

| Module | Models | State in the code |
|---|---|---|
| `RunStore` | job store, worker threads, reaper, failed writes, crashes | `db`: tables as the connection sees them; `disk`: as last committed; `pc`, `decided`: where each `_run_pipeline` is; `reader`: the ids a sweep holds |
| `RunLedger` | abstract: the durable life of a run (phase, audit entries, published) | - |
| `RunStoreRefinement` | `RunStore` implements `RunLedger`, seen through `disk`, and `ServedRuns`, seen through `db`, but for the fall back to `disk` after a failed write | - |
| `EventStream` | `stream_run` over `RunStore`; its steps are joint steps with the store's reader `Loop` | `stream`: cursor and what the client got; `holder`: whose `get_job` the loop is in |
| `Matching` | pure rules of matcher, verifier, confidence, escalation | - |
| `Reconciliation` | one run through both stages | `pool` = unclaimed, `matched`, `exceptions`, `queue` = needs_agent, `step` of MAX_STEPS |
| `Allocation` | abstract: rows are allotted to transactions, once and for good | - |
| `ReconciliationRefinement` | a full `Reconciliation` run implements `Allocation` | - |
| `CircuitBreaker` | `FallbackClient.chat` | the three counters; `pc`: calls in flight; `recent`, `spared`: history |
| `OpenRouterClient` | `OpenRouterClient.chat` against a service with a balance | `max_tokens`; `call`: the two attempt counters of each chat(); `learned`, `users`: history |
| `LlmUsage` | `GroqClient.chat`: retries, recovered calls, totals; the per-run delta | `total`; `attempt`; `register`, `usage`: a thread between read and write; `own`, `alone`: history |
| `Metrics` | generated batches with their truth, their rows in any order, and how a run is scored against it, over `Reconciliation` | `batch.truth`, `batch.orphans` |
| `Reconcilers` | the five standalone reconcilers, body limit and key check, as operators | - |
| `Settlements` | the endpoints over them, as the facts of a case move | `case`, `report`: the last accepted post and its answer |
| `Scenarios` | the generators' hand-constructed cases | - |
| `MerchantConfig` | table, endpoints and form of the merchant configuration | `table`; `load`, `save`, `form`; `writes`, `crossed`: history |
| `ServedRuns` | abstract: the runs as REST clients see them, one step per commit of the store; what the browser modules take for the server | `phase`, `log`, `published` |
| `RunsPolling` | the poll and its notifications, over `ServedRuns` | `asked`, `answers`: polls in flight; `previous`; `told`, `ran`, `endings`, `overtaken`: history |
| `RunPage` | the effect of the run page, over `ServedRuns` | `visits`: the effects, the last one current; `shown`: the component's state |
| `ApiKeyState` | the key's two copies, probes and the form, against `Authorized` | `apiKey`, `session`, `status`, `requests`, `checking` |
| `Browser` | the three browser parts in one specification, explored one at a time (`focus`) | - |
| `*Proofs` | theorems about the module they are named after; `RunStoreProofs` also about `EventStream` | - |
| `MC*` | instances for TLC | - |

One critical section under `_jobs_lock` is one action, because the lock is held
from the first statement to the commit; whatever lies between two critical
sections interleaves. A section that raises leaves the store in one of the
states its statements pass through (`Raise`), or where SQLite's own rollback
puts it. `Commit` makes durable everything on the connection, other threads'
leftovers included, because that is what the shared connection does. `Crash`
drops the uncommitted part and every thread.

In `Reconciliation` the LLM is the environment. A search, an answer without a
tool call, malformed arguments and an unknown tool differ only in what they add
to the conversation, so they are one action, `Continue`, that costs a step. A
match records two sets on purpose: `utrs`, what the record says, and `checked`,
the rows whose amounts were added up; the agent's record takes the former from
the LLM. Money is in whole paise, which makes the float tolerance of 0.02
exactly 2; dates are day numbers; a narration is the set of order references it
contains after `normalize`.

In `CircuitBreaker` counters stop at the thresholds they are compared with. In
`LlmUsage` `total += usage.get(...)` is two steps, since the call between the
read and the write of the attribute is a point where CPython may switch
threads; one total of tokens stands for the three that are kept alike.

In `MerchantConfig` a configuration read by a GET or written by a save carries
the merchant and the version of the row it came from (`base`): the properties
compare it with where a save goes. `Settlements` gives the facts of a case the
moves they can make outside the program (a refund, a released hold, a decided
dispute, another record) and posts the whole case each time, with any of the
headers. In `RunPage` a visit is one execution of the effect: a change of run
cancels it and aborts its stream, but an await that is not a stream returns
later into the same component; the feed it fills is the stream's messages, the
last of them 'done'. The three parts of `Browser` are not explored
together because they share no state: a run explores each against the server
with the others at rest.

Definitions commented "Variant with a bug" are not part of any specification:
each is a plausible wrong version of the definition after it, with which some
property is known to fail.

## 3. Runs

| Run | Instance | Shows |
|---|---|---|
| `store` | 2 runs (one with work in both stages), 1 reader, 1 failed write, 1 crash | AuditedBeforePublished, ProgressFollowsEvents, CrashesTearNothing, HistoryIsDurable, ImplementsBothViews, Settles |
| `store_reap_race` | 1 run, 1 reader, no faults | CompletedIsFinal is violated |
| `store_torn_audit` | 1 run, 1 failed write | AuditAllOrNothing is violated |
| `stream` | 1 run of 2 events, 2 streams, loop and 1 other reader, 1 failed write, 1 crash | InOrderExactlyOnce, CompletedMeansAll, StreamEnds |
| `reconcile` | 8 statement rows, taken 1 or 3 at a time; 1, 2 and (demo) 4 transactions; windows of 2 and 7 days; invalid input; generated pairs of any two kinds, with lags of 1 and 3 days | DisjointClaims, Accounted, NoRivalExplanation, UnreviewedIsExact, AgentMatchesArePlausible, ScoreIsSound, DemoSample, ImplementsAllocation, Terminates |
| `reconcile_hallucination` | full runs of 2 transactions, one invented UTR | UtrsClaimedOnce is violated |
| `breaker` | 3 threads, the code's thresholds 3 and 5 | OpenIffFailedInARow, LoneProbesAreSpaced, RouteFollowsHealth |
| `openrouter` | 2 threads, cap of 6 units, floor of 2, margin 1, budgets 1 and 2 | TypeOK, CapLearns, EveryCallEnds |
| `usage` | 3 runs, one of 2 calls, 2 retries | UsageIsAttributed, EveryChatEnds |
| `settlements` | every generated case and six small ones, 3 accepted posts, any header | ScenariosAreRecognised, RecordsHaveOnePath, AnswersAreMonotone, MovedMoneyIsConserved |
| `merchant` | 2 merchants, 2 values per field, 2 writes, a form, other callers, restarts | KnownIsNoFallback, SavedWhereLoaded, UneditedFieldsSurvive |
| `browser` | 2 runs of 2 events, 2 polls in flight, 3 visits, 2 keys, 2 requests, 2 loads | NotifiedRunsRan, InOrderNotifiesOnce, EndsAreNotified; PageShowsItsRun, PageSettles; StatusMatchesKey, StoredKeysAreGood |

Nine of these are conjunctions of named parts, each a sentence of its own in
its module: `RouteFollowsHealth` (a recovered primary is found, an outage
noticed), `CapLearns` (for a lone caller the cap never rises and no refusal
is repeated; with several, only a stale refusal raises it), `UsageIsAttributed`
(a run alone reports its usage exactly, one that overlaps no fewer calls than it
made), `AnswersAreMonotone`, `MovedMoneyIsConserved`, `PageShowsItsRun`,
`StoredKeysAreGood`, `ImplementsBothViews` (the ledger on disk, and the runs as
served) and `ScoreIsSound` (a wrong match is marked for review, and a routine
settlement needs no LLM). Type correctness is proved wherever it is stated
(section 4); the OpenRouter client's bounds the cap from below.

### Why these bounds

*Store.* Two runs are what it takes for one thread's commit to make another's
leftovers durable. A reader that sweeps between any two steps of both is
the race the reaper can lose. One fault and one crash cover: a torn audit
batch, a failure that cannot be recorded, a crash that drops an open
transaction, and each combined with a premature reap. For more, the safety
properties are proved. The cap on faults and crashes only stops TLC's
enumeration; it appears in no guard of the program.

*Stream.* Two streams share the loop, so that one waits while the other is in
`get_job`; the other reader reaps between the loop's SELECT and UPDATE.

*Reconciliation.* The rows are chosen at the edges: exact, exact at the
tolerance, a pair, a pair one paisa over, a row that mentions two orders and is
a day too late for the verifier, a row without reference, gaps on either side
of the 15% and Rs 50 bounds. Three rows are the least with two rival
explanations and one row more; two transactions the least that can compete.
The step budget is the code's. The generated batches pair two transactions of
one amount, order and day, of any two kinds, with a row that is nobody's: what
a wrong match needs. The lag and the extra charge are at the ends of the
generator's ranges, and of the two windows one covers every lag and one does not.

*Breaker.* The thresholds are the code's. Three threads allow a probe in
flight, a late success and a late failure at once.

*OpenRouter.* Two refusals have to be handled in the reverse order of their
balances; the cap has room for several reductions before the floor.

*Usage.* Two overlapping runs, and a third before or after both. A second call
of one run lets a whole call of another fall between two of its own. Two
retries (the code has `MAX_RETRIES = 5`) are a first, a last and one more
refusal; that a chat() ends within any number of them is proved.

*Settlements.* The small cases lie at the limits: a pool of exactly twelve
records, amounts at the tolerance and one paisa past it, a dispute above the
captured amount, a markup that passes 100%. All amounts are whole paise, here and
in the proofs: the endpoints accept any number, and the roundings of
`marketplace_settlement.py:109` and `chargeback_matcher.py:108` leave only such
amounts as they are. Three posts are a move, a move back
or past a limit, and one more.

*Merchant.* Two writes are what it takes to overwrite a row somebody has
loaded; two merchants, to save under the wrong id. The merchants are symmetric:
no operation tells them apart, and no property is a liveness property.

*Browser.* Two polls in flight can overtake each other. Three visits leave a
run and come back to it while the first visit still awaits something. Two
requests and two keys are the least that overlap with different answers; two
loads, the least that tell the two copies of the key apart. For more of each,
the invariants named in section 4 are proved.

### Fairness, and why the code justifies it

- `RunStore`: worker threads are scheduled and each call they make returns or
  raises (requests have a 60 s timeout and bounded retries); the wall clock
  moves, so a row becomes stale; `Settles` also needs somebody to read, since
  reaping is lazy: the frontend polls the run list.
- `EventStream`: nobody but the streams' own polls is relied on to reap. The
  event loop serves every ready generator in turn, hence strong fairness of a
  stream's turn, which is enabled only when no other is in `get_job`.
- `Reconciliation`: the thread runs and each LLM call returns or raises.
- `CircuitBreaker`: provider calls end, and the runs keep making calls
  (without calls no half-open probe is ever sent, in the code as in the model).
- `OpenRouterClient`, `LlmUsage`: a call that has begun goes on (every request
  has a timeout); nobody is made to begin.
- `Browser`: the interval fires for ever, and the requests of the page
  end, with an answer or without. Of polls that keep being sent and
  answers that keep coming not all are lost, hence strong fairness of `List`
  and `ApplyOne`: each is disabled by a loss. Nothing is assumed of the runs.

No liveness property assumes that a write succeeds or that a provider is up,
except where it says so (`RouteFollowsHealth`). `Settles` with
faults relies on their being finitely many, as the bound makes them: a disk on
which every write fails for ever does keep a run in "running".

Deadlock is checked except in `Reconciliation`, `LlmUsage`, `Settlements`,
`MerchantConfig` and `Browser`, where behaviours end: the run is over, all runs
have reported, the client posts no more, the user leaves the page.

## 4. Proofs

All theorems hold for every value of the constants that satisfies the named
assumptions of the module: any number of runs, readers, threads, records, rows,
failed writes and crashes, any thresholds.

| Theorem | Module | Assumes |
|---|---|---|
| `TypeCorrect`: `Spec => []TypeOK` | `RunStoreProofs` | Det and Agent are natural numbers per run |
| `ResultsAreAudited`: `Spec => []AuditedBeforePublished` | `RunStoreProofs` | the same |
| `NothingIsTakenBack`: `Spec => HistoryIsDurable` | `RunStoreProofs` | the same |
| `CrashesLeaveWholeAudits`: `Spec => []CrashesTearNothing` | `RunStoreProofs` | the same |
| `ProgressIsInTheLog`: `Spec => []ProgressFollowsEvents` | `RunStoreProofs` | the same |
| `StoreImplementsLedger`: `Spec => ImplementsLedger` | `RunStoreProofs` | the same |
| `StoreServesRuns`: `Spec => ServesTheRuns` | `RunStoreProofs` | the same |
| `StoreImplementsBothViews`: `Spec => ImplementsBothViews` | `RunStoreProofs` | the same |
| `EventsArriveInOrder`: `StreamSpec => []InOrderExactlyOnce` | `RunStoreProofs` | the same; the event loop is a reader, "nobody" is no stream |
| `CompletedIsComplete`: `StreamSpec => []CompletedMeansAll` | `RunStoreProofs` | the same |
| `TypeCorrect` | `CircuitBreakerProofs` | the two thresholds are positive |
| `OpensOnARow`: `Spec => []OpenIffFailedInARow` | `CircuitBreakerProofs` | the same |
| `LoneProbesWait`: `Spec => LoneProbesAreSpaced` | `CircuitBreakerProofs` | the same |
| `TypeCorrect` | `ReconciliationProofs` | a batch is two sequences with integer amounts and dates, and a sample size |
| `ClaimsAreDisjoint`: `Spec => []DisjointClaims` | `ReconciliationProofs` | the same; not even that UTRs are unique |
| `NoRivals`: `Spec => []NoRivalExplanation` | `ReconciliationProofs` | the same |
| `AgentIsPlausible`: `Spec => []AgentMatchesArePlausible` | `ReconciliationProofs` | the same |
| `UnreviewedAreExact`: `Spec => []UnreviewedIsExact` | `ReconciliationProofs` | the same |
| `EveryRecordAccounted`: `Spec => []Accounted` | `ReconciliationProofs` | the same |
| `SampleKeepsToSize`: `Spec => DemoSample` | `ReconciliationProofs` | the same |
| `RunImplementsAllocation`: `Spec => ImplementsAllocation` | `ReconciliationProofs` | the same |
| `WrongMatchesAreReviewed`: `Spec => []FalsePositivesAreReviewed` | `ReconciliationProofs` | also: a batch with a truth is one the generator makes, with extra charges of 500 to 4000 paise and lags of 1 to 3 days |
| `ScoreStands`: `Spec => []ScoreIsSound` | `ReconciliationProofs` | the same |
| `EveryStepCounts`: `Spec => RunsAreBounded` | `ReconciliationProofs` | only what a batch is |
| `ReportsAttributeUsage`: `Spec => []UsageIsAttributed` | `LlmUsageProofs` | the bounds are natural numbers |
| `EveryStepCounts`: `Spec => ChatsAreBounded` | `LlmUsageProofs` | the same |
| `CapStaysViable`: `Spec => []TypeOK` | `OpenRouterClientProofs` | the floor is at most the initial cap, the margin positive, the budgets natural numbers |
| `CapOnlyLearns`: `Spec => CapLearns` | `OpenRouterClientProofs` | the same |
| `EveryStepCounts`: `Spec => CallsAreBounded` | `OpenRouterClientProofs` | the same |
| `TypeCorrect` | `MerchantConfigProofs` | the defaults are values, and a request filled with them is a configuration |
| `KnownNeverFallsBack`: `Spec => []KnownIsNoFallback` | `MerchantConfigProofs` | the same |
| `SavesGoHome`: `Spec => []SavedWhereLoaded` | `MerchantConfigProofs` | the same |
| `SavesResetNothing`: `Spec => UneditedFieldsSurvive` | `MerchantConfigProofs` | the same |
| `OnePathPerRecord`: `Spec => []RecordsHaveOnePath` | `SettlementsProofs` | cases and additions have the request models' types, the first case was accepted |
| `AddedFactsMoveOneWay`: `Spec => AnswersAreMonotone` | `SettlementsProofs` | the same |
| `MoneyIsConserved`: `Spec => MovedMoneyIsConserved` | `SettlementsProofs` | the same |
| `StoppingEarlyIsExact`: `Spec => []SearchesAreExact` | `SettlementsProofs` | the same |
| `StoredKeysStayGood`: `Spec => []StoredKeysAreGood` | `BrowserProofs` | nothing |
| `StatusStaysTrue`: `Spec => []StatusMatchesKey` | `BrowserProofs` | "none" is not a key: the form submits no empty one |
| `PageBelongs`: `Spec => []PageShowsItsRun` | `BrowserProofs` | a run's length is a natural number |
| `NotificationsAreEarned`: `Spec => []NotifiedRunsRan` | `BrowserProofs` | the counters' bound is a natural number |
| `InOrderPollsNotifyOnce`: `Spec => []InOrderNotifiesOnce` | `BrowserProofs` | the same |

### The store

`AuditedBeforePublished` alone is not inductive: that the commit which
publishes is safe depends on what the thread did before, on nobody else having
written its rows, and on what a failed section left on the connection. The
invariant `IInv` adds, per run, `Ahead` (the connection is never behind the
disk and never over the full count) and `InStep` (while the thread works, the
event log is exactly what it has decided, the audit log empty and then full).
The proof has one step per action, twice: seen from the acting run
(`WorkerKeepsOwn`) and from any other (`WorkerKeepsOthers`), where every step
amounts to "nothing", "what is on the connection becomes durable" or "the
connection falls back to the disk" (`Kept`). That case is where the shared
connection matters, and it is the reason for `Ahead`. The same lemmas give the
action property. `CrashesTearNothing` adds `Clean`: until a write fails, the
connection holds nothing uncommitted and each run's audit log is empty or full.

`ProgressFollowsEvents` and the refinement need to know the row a thread finds
(`Placed`): an UPDATE of a row that is not there, or that another thread has
moved, would count something else. The refinement also needs how far the row
on the connection can be from the one on disk (`OnTheWay`), for any thread's
commit takes another run's difference along. `LInv` is `IInv` with both, and
`Shown`, for connection and disk alike. Each commit is then a ledger step for
every run whose row it changes, by a case per pair of statuses; every other
step leaves the disk alone and stutters.

*What is served.* The browser is checked against `ServedRuns`, not against the
store; `StoreServesRuns` closes that gap, through failed writes, sweeps and
crashes. `VInv` is `LInv`, `Clean` and `Queued` (a run still pending
has no events, on the connection and on disk). Every step of the store is about one run: a
worker's is one step of `ServedRuns` for it (`WorkerServes`), also when it raises
half-way (`FailedWriteServes`), a reaper's is the run's sudden end, and the rest
change nothing a client can read (`ViewIsServed`). One kind of step `ServedRuns`
does not have: statements of a failed section are served while they wait in the
open transaction, and when SQLite gives that up, or the process dies with it,
clients are back at what was last committed. The theorem names it (`FallsBack`)
and limits it to after a failed write, since before one the connection shows
nothing that was not committed (`ClientFallsBack`). The browser modules do not
include that step: their properties are about a server whose writes have not
been taken back.

`HistoryIsDurable` has a part about the other end of the reaper's race:
"completed" is final for a run whose thread is over and whose id no sweep holds
(`OutOfReach`): a sweep that begins later does not pick it (`StaysOutOfReach`). Finding 1 of
section 5 is therefore the only way out of "completed".

*The stream.* `SInv` joins `LInv`: what a client has received is 1, 2, ...,
never more than all decisions, and while the run's thread works the cursor is
the number of events received. It is not always that. With two failed writes a
client can receive an event that a later failure takes back: `get_job` reads
the connection, uncommitted events included. The cursor then goes back with the
list, and the client would get the number again. What saves it is that a list
only shrinks when its thread is gone, after which it never grows
(`sent < Len(got) => events <= sent`); the run with one fault does not show
this.

### The breaker

The code keeps a counter, the property speaks of outcomes.
`Counted` links them: the last `consecutive_failures` outcomes all raised and
the one before served. `Spaced` says the code's counter never exceeds the calls
spared since the last one at the primary, when none is there; with a probe out
that fails (section 5).

### Reconciliation

`Typed` refines `TypeOK` with the types of the two lists.
`DisjointClaims` is inductive relative to it: a match is checked against rows
of the pool (`ExplainedFromPool`, `Proposed`), and what it claims leaves the
pool (`ClaimLeavesPool`); the sample is a prefix (`TakePrefix`).

`Justified` says of every decision what its stage checked when it made it
(`Grounds`), in terms of today's pool: a deterministic match was the only
explanation among the rows free then, and rows that leave the pool since can
only remove rivals (`RivalsOnlyLeave`). With it, `NoRivalExplanation`,
`AgentMatchesArePlausible` and `UnreviewedIsExact` are consequences. That the
verifier's bounds imply the property's needs that a total of whole amounts is
whole (`TotalIsInt`). A fold's value is defined by recursion on its set, and
induction over sets is out of reach as a theorem with an operator parameter;
the proof takes a smallest counterexample instead, which `WFMin` provides for
the inclusion of finite sets.

`Accounted` follows from `InOnePlace`: each position of the file is still to
come, or waits in the queue once, or has one decision in one list. It holds
because valid input names no transaction twice, so that a decision is about one
position, and it holds after a call has raised as well. The refinement of
`Allocation` maps steps by the list they append to.

*The score.* `FalsePositivesAreReviewed` and `RoutineCasesAreSettled` compare a
run with the truth the generator kept. A wrong match escapes review only if
amount and reference agree; the theorem shows that on a generated batch these
determine the truth (`SupportedIsRight`): the row with the reference is one of
the transaction's own, and a row more would show in the total, since every row
amounts to at least half of the least net (`TotalWithout`, `TotalBeyond`).
`OnTrack` is the strengthening: the rows of a record still to come are in the
pool, no duplicate is matched, and the agent's queue holds no transaction that
has two rows. A clean, lagging or split settlement then finds its own rows
there, and they are its only explanation (`SoleExplanationMatches`, `OneRowIsResolved`,
`SplitIsResolved`), and `SettledSoFar` carries the decision to the end of the
run, through every later step and every answer of the LLM.

*Length.* `StepsLeft` counts a step per stage, and for each record its turn and
its budget. Every action lowers it and it is 0 only at the end, so a run over
`n` records takes at most `3 + 7n` steps. This is the half of `Terminates` that
is a safety property; that an unfinished run is not stuck, and is scheduled, is
left to TLC and to fairness. `EveryStepCounts` is the same for the two clients:
a call's remaining retries bound it, however the service answers and whatever
other threads do to what they share.

### LLM clients

*Usage.* `Books` relates what the property speaks of at the end of a run to
every moment before: while a run is alone in its agent stage, the totals are
what it found plus its own calls, but for the response it is just adding, and
the register of that addition holds the total as it is. Overlaps end that claim
for both runs, and a stage that begins later starts from whatever they left.
What overlaps leave is `Counted`: `total_calls += 1` is one step, so that the
calls of others only raise a total that already shows the run's own.

*OpenRouter.* The floor of the cap is inductive with the type of the calls in
flight. For a lone user, `SoleInv` adds what its call knows (`Learning`: it asks
for the cap as it is, a refusal names the balance, and after one reduction the
next request is affordable) and what the cap says (`CapKnows`: it is no more than
the least amount a refusal named, unless too little is left for ever). With several
users only `ReduceCap` moves the cap, and what it writes follows from what the
refusal said: that the cap rises then means that the refused request asked for
more than the cap has become since (`OnlyStaleRefusalsRaise`).

### Merchant configuration

`KnownIsNoFallback` needs that no registration is
ever taken back (`KnownStays`): a merchant known at the first read has a row at
the second. For `UneditedFieldsSurvive` the version of a row, counted in
`writes`, identifies its contents: while the version a form's value came from
is still the row's, an unedited field of the form is the row's field
(`Agree`), and a save that is sent keeps that.

### Standalone reconcilers

`CaseInv`: the case is well formed and acceptable, and the report is the answer
to it. Every step is one of the moves, answered, or leaves case and answer
alone (`EveryStepMoves`), so the properties become statements about the
operators of `Reconcilers` on two versions of a case. The lemmas carry them:
a total over a set with one more record, or with one transfer moved from a
status to another, differs by that record (`TotalWith`, `TotalOfBoth`,
`TotalsAlike`); the search stops early, but never so early that one group looks
like the only one (`SearchTellsOneFromMore`), and a record appended to the pool
leaves the groups there were (`DoubtGrows`). `StoppingEarlyIsExact` says what
that comes to for every report: none, one and several are told apart as by the
exhaustive search. The band's part needs
`markup <= 1000`, that is, at most 100%: above that, which the endpoint accepts
(`app.py:272`), the factor 1 - markup is negative, a higher `rate_max` lowers
the upper bound, and the property, which excepts this case, would be false.

### Browser

`ClearedStaysCleared` needs that nothing sets the key after a clear
with no request out: requests are then begun by the user alone, or by a reload
that finds no copy. `StatusMatchesKey` needs `OneRequest`: as long as nothing has
overlapped, at most one request is out, it carries the key in memory, and the
page shows "checking" or a prompt. The page's invariants follow from one: what
is shown was set by the current visit (`ShowsVisit`), the feed being its first
`got` messages, and a visit that was left can only be awaiting a status or results.
`NotifiedRunsRan` holds because every answer in flight and the statuses kept
show no run as running that was not (`Seen`); the order of answers is
irrelevant to it.

`InOrderNotifiesOnce` compares a counter with one that no list in flight
carries: how often the run had ended when the list was made. `OrderInv`
therefore asks that there EXIST such numbers, one per answer in flight, with
which the kept statuses, the answers and the server form a chain (`Follows`):
at each link the later number has room for the earlier one and the end, if any,
between the two statuses. An answer applied in order moves the chain's start, a
poll extends its end, and what a lost poll drops the rest still spans.

### Only model-checked

- `ScenariosAreRecognised`: it is about the constructed cases, which are
  constants. TLC evaluates all of them; the sums over subsets they need are
  enumerations the provers do not do.
- Liveness under fairness (for the three that end because a budget is spent,
  the bound is proved, see above): `Settles`, `StreamEnds`, `Terminates`,
  `RouteFollowsHealth`, `EveryCallEnds`, `EveryChatEnds`, `EndsAreNotified`,
  `PageSettles`.

## 5. Findings

Each is a run that TLC ends with a counterexample; `PROJECT.json` quotes the
sentence of the repository it contradicts.

1. `store_reap_race`: the reaper can overwrite a run that completed between its
   SELECT and its UPDATE; the run stays "failed" with its results stored. (A
   completed run that no sweep holds stays completed: that is proved.)
2. `store_torn_audit`: an audit batch that fails half-way is left in the shared
   transaction, and the write that records the failure commits it.
3. `reconcile_hallucination`: an accepted agent match is recorded with the UTRs
   as proposed, also those that were not verified because they are taken or do
   not exist. (No ROW supports two matches: that is proved.)

Seen while modelling, without a run of their own; where a property excepts such
a case, its comment says so.

*LLM clients.* While a probe with its minutes of retries is out, every further
call probes too (`llm_client.py:411`; the docstring at 357 has the primary
retried every CIRCUIT_HALF_OPEN_AFTER calls). Refusals that two callers handle out of order can raise the
learned cap (109; the comment at 58 says it never increases), though to no more
than one of them said was affordable (`OnlyStaleRefusalsRaise`). Overlapping runs count
each other's tokens (`jobs.py:417`, comment at 404), and overlapping additions
to the totals can be lost.

*Store and agent.* A run that completes after a premature reap keeps the
reaper's error text. `report_exception` stores any string as the exception
type. A run reads its merchant's configuration when its thread gets to it, not
when it was requested. The verifier's window is a fixed 3 days, whatever the
merchant's: an exact row of the fourth day can only be rejected. The metrics count a reported DUPLICATE of a matched transaction as a
wrongly flagged exception.

*Merchant form.* If the id is edited while a load or a save is out, the answer
fills the fields under the new id, and a save then writes one merchant's values
to another. GET can answer `known_merchant: false` with values registered in
between. `app.py:424` calls the registry "in-memory only"; it is a SQLite
table.

*Browser.* Results of a run that was left while they were awaited can
appear on the next run's page (`RunDetail.tsx:60`, 74). An overtaken poll can notify an end twice, or lose
it. Overlapping probes can leave the shown status wrong, although the comment at
`AuthContext.tsx:104` says the two can never disagree; clearing a key where the
server wants none still prompts for one.

*Reconcilers.* The refund module's docstring says an over-refund is flagged
"rather than computing a negative net_expected_settlement"; line 89 computes
it. A split with holds of zero paise is not `pending_hold`, although the
docstring says "at least one transfer on_hold". `markup_bps` has no upper
limit: above 100% a wider band can lose a match.

## 6. What is not modelled, and why

- SQL, JSON, HTTP, prompts, wording, logging, rendering: no property is about
  them. The search tools return data to the LLM and change no state.
- SQLite's atomic commit is taken as it is documented: a commit is durable as a
  whole or not at all.
- More than one server process: the lock and the connection are per process,
  and the repository deploys one.
- `normalize` and `ref_token` are represented by their result, the set of
  references a narration contains. The noisy generator works on the characters
  of both, and is not modelled for that reason.
- Metrics other than "a wrong active match" and "a routine kind settled": counts
  and rates of a report. The
  scripted LLM of the batch runner: the model's LLM may answer anything.
- The health, tool listing and audit readers, CORS: no state. Request models
  are modelled where a refusal matters (`Settlements`).
- Which two of several groups an ambiguous search shows; the implied rate of an
  FX answer; the wording of every reason.
- The dismissal of notifications, and React's rendering: a state update is
  taken to be in effect at once.
- A composition of `Reconciliation` and `RunStore`: the run's decisions reach
  the store through one callback, in the order they are made, and `RunStore`
  takes any number of them in both stages.
- Data generators (but for their constructed cases) and scripts are not part of
  the running system.

## 7. Plan

Every stateful component is modelled, and every safety property the runs check
is proved, but the one about constants. What would add most:

1. What a pure operator computes for all inputs where it is only checked on
   the cases of a run: `Converted` and `Rounded` of the FX band.
2. `SoleRunIsExact` for runs that merely do not overlap in their calls.
3. The browser over a server that can fall back after a failed write
   (`FallsBack`): which of its properties outlive that.
