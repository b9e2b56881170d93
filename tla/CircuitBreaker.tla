--------------------------- MODULE CircuitBreaker ---------------------------
(***************************************************************************)
(* FallbackClient of agent/llm_client.py: the circuit breaker every run's  *)
(* thread shares when both providers are configured.                       *)
(*                                                                         *)
(* A call takes the lock to choose a provider, lets go of it for the       *)
(* provider's whole chat() (retries and waits included), and takes it      *)
(* again to record how the primary did.  Whether the secondary serves or   *)
(* raises changes nothing here, so a call just ends there.                 *)
(***************************************************************************)
EXTENDS Integers, FiniteSets

CONSTANTS
  Callers,                   \* threads that share the client
  CIRCUIT_FAILURE_THRESHOLD,
  CIRCUIT_HALF_OPEN_AFTER

ASSUME ThresholdAssumption == CIRCUIT_FAILURE_THRESHOLD \in Nat \ {0}
ASSUME HalfOpenAssumption == CIRCUIT_HALF_OPEN_AFTER \in Nat \ {0}

VARIABLES
  consecutive_failures,
  tripped,
  calls_since_probe,
  pc,        \* pc[c]: "idle", or waiting for "primary" or "secondary"
  health,    \* the primary: "up", "flaky" or "down"
  \* history, read by no action
  recent,    \* how the primary's last calls ended, the latest first
  spared     \* calls not sent to the primary since the last one that was

vars == <<consecutive_failures, tripped, calls_since_probe, pc, health,
          recent, spared>>

\* The counters are only compared with their thresholds: past them they stay.
CountTo(limit, n) == IF n < limit THEN n + 1 ELSE n

Init ==
  /\ consecutive_failures = 0
  /\ tripped = FALSE
  /\ calls_since_probe = 0
  /\ pc = [c \in Callers |-> "idle"]
  /\ health = "up"
  /\ recent = [i \in 1..CIRCUIT_FAILURE_THRESHOLD |-> "served"]
  /\ spared = 0

-----------------------------------------------------------------------------
Remember(outcome) ==
  recent' = [i \in DOMAIN recent |-> IF i = 1 THEN outcome ELSE recent[i - 1]]

SendTo(c, provider) ==
  /\ pc' = [pc EXCEPT ![c] = provider]
  /\ spared' = IF provider = "primary" THEN 0
               ELSE CountTo(CIRCUIT_HALF_OPEN_AFTER, spared)

\* Variants with a bug: a spared call is not counted; a probe is sent one call
\* early.
ChooseUncounted(c) ==
  /\ pc[c] = "idle"
  /\ SendTo(c, IF tripped THEN "secondary" ELSE "primary")
  /\ UNCHANGED <<consecutive_failures, tripped, calls_since_probe, health, recent>>

ChooseEarly(c) ==
  /\ pc[c] = "idle"
  /\ calls_since_probe' = IF tripped THEN CountTo(CIRCUIT_HALF_OPEN_AFTER, calls_since_probe)
                          ELSE calls_since_probe
  /\ SendTo(c, IF tripped /\ calls_since_probe' + 1 < CIRCUIT_HALF_OPEN_AFTER
               THEN "secondary" ELSE "primary")
  /\ UNCHANGED <<consecutive_failures, tripped, health, recent>>

\* The first critical section of chat(): the primary is tried while the
\* circuit is closed, and when enough calls went by since the last probe.
Choose(c) ==
  /\ pc[c] = "idle"
  /\ calls_since_probe' = IF tripped THEN CountTo(CIRCUIT_HALF_OPEN_AFTER, calls_since_probe)
                          ELSE calls_since_probe
  /\ SendTo(c, IF tripped /\ calls_since_probe' < CIRCUIT_HALF_OPEN_AFTER
               THEN "secondary" ELSE "primary")
  /\ UNCHANGED <<consecutive_failures, tripped, health, recent>>

\* Variant with a bug: a success closes the circuit but is no fresh start.
PrimaryServesKeeping(c) ==
  /\ pc[c] = "primary"
  /\ health # "down"
  /\ tripped' = FALSE
  /\ calls_since_probe' = 0
  /\ pc' = [pc EXCEPT ![c] = "idle"]
  /\ Remember("served")
  /\ UNCHANGED <<consecutive_failures, health, spared>>

\* A success closes the circuit, whenever the call was sent.
PrimaryServes(c) ==
  /\ pc[c] = "primary"
  /\ health # "down"
  /\ consecutive_failures' = 0
  /\ tripped' = FALSE
  /\ calls_since_probe' = 0
  /\ pc' = [pc EXCEPT ![c] = "idle"]
  /\ Remember("served")
  /\ UNCHANGED <<health, spared>>

\* A failure is counted, and the call falls through to the secondary.
PrimaryRaises(c) ==
  /\ pc[c] = "primary"
  /\ health # "up"
  /\ consecutive_failures' = CountTo(CIRCUIT_FAILURE_THRESHOLD, consecutive_failures)
  /\ calls_since_probe' = 0
  /\ tripped' = (tripped \/ consecutive_failures' >= CIRCUIT_FAILURE_THRESHOLD)
  /\ pc' = [pc EXCEPT ![c] = "secondary"]
  /\ Remember("raised")
  /\ UNCHANGED <<health, spared>>

\* The secondary serves the call, or raises: either way the call is over.
SecondaryEnds(c) ==
  /\ pc[c] = "secondary"
  /\ pc' = [pc EXCEPT ![c] = "idle"]
  /\ UNCHANGED <<consecutive_failures, tripped, calls_since_probe, health, recent, spared>>

\* The primary's own condition changes as it will.
HealthChanges ==
  /\ health' \in {"up", "flaky", "down"} \ {health}
  /\ UNCHANGED <<consecutive_failures, tripped, calls_since_probe, pc, recent, spared>>

Call(c) == Choose(c) \/ PrimaryServes(c) \/ PrimaryRaises(c) \/ SecondaryEnds(c)

Next == (\E c \in Callers : Call(c)) \/ HealthChanges

Spec == Init /\ [][Next]_vars

\* Provider calls end (each request times out and retries are bounded), and
\* the runs under way keep making calls.
FairSpec == Spec /\ \A c \in Callers : WF_vars(Call(c))

-----------------------------------------------------------------------------
TypeOK ==
  /\ consecutive_failures \in 0..CIRCUIT_FAILURE_THRESHOLD
  /\ tripped \in BOOLEAN
  /\ calls_since_probe \in 0..CIRCUIT_HALF_OPEN_AFTER
  /\ pc \in [Callers -> {"idle", "primary", "secondary"}]
  /\ health \in {"up", "flaky", "down"}
  /\ recent \in [1..CIRCUIT_FAILURE_THRESHOLD -> {"served", "raised"}]
  /\ spared \in 0..CIRCUIT_HALF_OPEN_AFTER

\* "Tracks CONSECUTIVE failures across calls ... tolerating isolated blips":
\* in whatever order concurrent calls were sent and end, the circuit is open
\* exactly when the primary's last THRESHOLD calls to end all raised.
OpenIffFailedInARow ==
  tripped <=> \A i \in DOMAIN recent : recent[i] = "raised"

\* A primary that has recovered for good is found out and used again,
\* however many calls were in flight when it did (half-open recovery).
Recovers == <>[](health = "up") => <>[]~tripped

\* A primary that is down for good ends up behind an open circuit
\* ("reacting within a few calls to a genuine sustained outage").
OutageIsNoticed == <>[](health = "down") => <>[]tripped

\* With no call at the primary, an open circuit spares at least
\* CIRCUIT_HALF_OPEN_AFTER - 1 calls before it sends one there.
LoneProbesAreSpaced ==
  [][\A c \in Callers :
       /\ tripped /\ pc[c] = "idle" /\ pc'[c] = "primary"
       /\ \A other \in Callers : pc[other] # "primary"
       => spared >= CIRCUIT_HALF_OPEN_AFTER - 1]_vars

\* Once the primary's health has settled, so does the provider that is tried
\* first, on the one that works.
RouteFollowsHealth == Recovers /\ OutageIsNoticed
=============================================================================
