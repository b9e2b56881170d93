------------------------------ MODULE LlmUsage ------------------------------
(***************************************************************************)
(* GroqClient of agent/llm_client.py, which all runs share: the retry loop *)
(* of chat() and the cumulative totals, and the before/after delta with    *)
(* which _run_pipeline (api/jobs.py) attributes them to a run.             *)
(*                                                                         *)
(* total += n is a read and a write of the attribute; the call of          *)
(* usage.get() stands between them and another thread may run there.       *)
(* total_calls += 1 has no call in it, and threads switch at calls.  One   *)
(* total of tokens stands for the three that are kept the same way.        *)
(***************************************************************************)
EXTENDS Integers, FiniteSets, FiniteSetsExt

CONSTANTS
  Runs,
  MAX_RETRIES,
  MaxCalls,   \* bound: MaxCalls[r] LLM calls of r
  MaxTokens   \* bound: tokens of a call

ASSUME BoundAssumption == MAX_RETRIES \in Nat /\ MaxCalls \in [Runs -> Nat] /\ MaxTokens \in Nat

VARIABLES
  total,         \* total_prompt_tokens and total_calls of the shared client
  pc,            \* pc[r]: "ready", "agent", "calling", "asleep", "adding", "reported" or "failed"
  attempt,       \* attempt[r]: of the chat() of r's thread
  before,        \* before[r]: the totals when r's agent stage began
  register,      \* register[r]: the total r's thread has read and will write
  usage,         \* usage[r]: the tokens of the response being added
  reported,      \* reported[r]: the usage in r's results
  \* history, read by no action
  own,           \* own[r]: the calls r has had a message from, and the tokens they used
  alone          \* alone[r]: no other run's agent stage overlapped with r's

vars == <<total, pc, attempt, before, register, usage, reported, own, alone>>

Nothing == [tokens |-> 0, calls |-> 0]

Init ==
  /\ total = Nothing
  /\ pc = [r \in Runs |-> "ready"]
  /\ attempt = [r \in Runs |-> 0]
  /\ before = [r \in Runs |-> Nothing]
  /\ register = [r \in Runs |-> 0]
  /\ usage = [r \in Runs |-> 0]
  /\ reported = [r \in Runs |-> Nothing]
  /\ own = [r \in Runs |-> Nothing]
  /\ alone = [r \in Runs |-> TRUE]

Go(r, place) == pc' = [pc EXCEPT ![r] = place]

-----------------------------------------------------------------------------
(* The run                                                                 *)

InAgentStage(r) == pc[r] \in {"agent", "calling", "asleep", "adding"}

\* Variant with a bug: the totals are taken to start at zero.
SnapshotZero == Nothing

\* _usage_snapshot
Snapshot == total

\* usage_before = _usage_snapshot(llm_client)
SnapshotBefore(r) ==
  /\ pc[r] = "ready" /\ Go(r, "agent")
  /\ before' = [before EXCEPT ![r] = Snapshot]
  /\ alone' = [s \in Runs |->
       IF s = r THEN \A o \in Runs \ {r} : ~InAgentStage(o) ELSE alone[s] /\ ~InAgentStage(s)]
  /\ UNCHANGED <<total, attempt, register, usage, reported, own>>

\* usage_after, and the difference goes into the results.
SnapshotAfter(r) ==
  /\ pc[r] = "agent" /\ Go(r, "reported")
  /\ reported' = [reported EXCEPT ![r] = [f \in {"tokens", "calls"} |-> total[f] - before[r][f]]]
  /\ UNCHANGED <<total, attempt, before, register, usage, own, alone>>

-----------------------------------------------------------------------------
(* chat()                                                                  *)

Chat(r) ==
  /\ pc[r] = "agent" /\ own[r].calls < MaxCalls[r] /\ Go(r, "calling")
  /\ UNCHANGED <<total, attempt, before, register, usage, reported, own, alone>>

\* Variant with a bug: a refusal that names its wait is free.
RetryUncounted(r) ==
  /\ pc[r] = "calling" /\ attempt[r] < MAX_RETRIES /\ Go(r, "asleep")
  /\ UNCHANGED <<total, attempt, before, register, usage, reported, own, alone>>

\* A 402 with Retry-After or a 429: sleep, then ask again.
Retry(r) ==
  /\ pc[r] = "calling" /\ attempt[r] < MAX_RETRIES /\ Go(r, "asleep")
  /\ attempt' = [attempt EXCEPT ![r] = @ + 1]
  /\ UNCHANGED <<total, before, register, usage, reported, own, alone>>

Wake(r) ==
  /\ pc[r] = "asleep" /\ Go(r, "calling")
  /\ UNCHANGED <<total, attempt, before, register, usage, reported, own, alone>>

\* A response with a message: the total is read.
ReadTotal(r) ==
  /\ pc[r] = "calling" /\ Go(r, "adding")
  /\ attempt' = [attempt EXCEPT ![r] = 0]
  /\ register' = [register EXCEPT ![r] = total.tokens]
  /\ \E n \in 0..MaxTokens :
       /\ usage' = [usage EXCEPT ![r] = n]
       /\ own' = [own EXCEPT ![r].tokens = @ + n, ![r].calls = @ + 1]
  /\ UNCHANGED <<total, before, reported, alone>>

\* ... and written back with the response's tokens added; the locals go.
WriteTotal(r) ==
  /\ pc[r] = "adding" /\ Go(r, "agent")
  /\ total' = [tokens |-> register[r] + usage[r], calls |-> total.calls + 1]
  /\ register' = [register EXCEPT ![r] = 0] /\ usage' = [usage EXCEPT ![r] = 0]
  /\ UNCHANGED <<attempt, before, reported, own, alone>>

RecoveredTotal == [total EXCEPT !.calls = @ + 1]

\* A 400 whose body holds the tool call that was attempted: the message is
\* rebuilt from it, and the call counts without tokens.
Recover(r) ==
  /\ pc[r] = "calling" /\ Go(r, "agent")
  /\ attempt' = [attempt EXCEPT ![r] = 0]
  /\ total' = RecoveredTotal
  /\ own' = [own EXCEPT ![r].calls = @ + 1]
  /\ UNCHANGED <<before, register, usage, reported, alone>>

\* No answer in time, another error, a body that is not a message, or a refusal
\* after the last retry: nothing is added, and the run fails without a report.
ChatRaises(r) ==
  /\ pc[r] = "calling" /\ Go(r, "failed")
  /\ attempt' = [attempt EXCEPT ![r] = 0]
  /\ UNCHANGED <<total, before, register, usage, reported, own, alone>>

Answer(r) == Retry(r) \/ Wake(r) \/ ReadTotal(r) \/ WriteTotal(r) \/ Recover(r) \/ ChatRaises(r)

Step(r) == SnapshotBefore(r) \/ Chat(r) \/ Answer(r) \/ SnapshotAfter(r)

Next == \E r \in Runs : Step(r)

\* A request returns or times out, and the thread goes on.
Fairness == \A r \in Runs : WF_vars(Answer(r))

Spec == Init /\ [][Next]_vars /\ Fairness

-----------------------------------------------------------------------------
(* Properties                                                              *)

\* A run nobody else's agent stage overlaps with reports its own tokens and
\* calls, to the token, whatever earlier runs left in the totals and however
\* many retries and recovered answers there were.
SoleRunIsExact ==
  \A r \in Runs : pc[r] = "reported" /\ alone[r] => reported[r] = own[r]

\* Overlaps may charge a run for the calls of others, never lose one of its own:
\* a report leaves out no call the run made, whoever else was in the client.
CallsAreCounted ==
  \A r \in Runs : pc[r] = "reported" => reported[r].calls >= own[r].calls

\* What a report attributes to its run: everything, exactly, if it was alone,
\* and at least its calls if it was not (tokens can be lost then).
UsageIsAttributed == SoleRunIsExact /\ CallsAreCounted

\* Every chat() ends, with a message or an exception, however the service
\* answers: all refusals draw on one budget.
EveryChatEnds ==
  \A r \in Runs : pc[r] \in {"calling", "asleep", "adding"} ~> pc[r] \in {"agent", "failed"}
=============================================================================
