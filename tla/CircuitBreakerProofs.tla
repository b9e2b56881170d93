------------------------ MODULE CircuitBreakerProofs ------------------------
(***************************************************************************)
(* Proofs about CircuitBreaker, for every set of callers and every pair of *)
(* thresholds.                                                             *)
(***************************************************************************)
EXTENDS CircuitBreaker, TLAPS

USE ThresholdAssumption, HalfOpenAssumption

LEMMA RememberType ==
  ASSUME TypeOK, NEW outcome \in {"served", "raised"}, Remember(outcome)
  PROVE  /\ recent' \in [1..CIRCUIT_FAILURE_THRESHOLD -> {"served", "raised"}]
         /\ recent'[1] = outcome
         /\ \A i \in 2..CIRCUIT_FAILURE_THRESHOLD : recent'[i] = recent[i - 1]
BY DEF Remember, TypeOK

\* Every reachable state of the breaker is well formed.
THEOREM TypeCorrect == Spec => []TypeOK
<1>1. Init => TypeOK
  <2>1. Init => tripped \in BOOLEAN
    BY DEF Init
  <2>2. Init => recent \in [1..CIRCUIT_FAILURE_THRESHOLD -> {"served", "raised"}]
    BY DEF Init
  <2>3. Init => pc \in [Callers -> {"idle", "primary", "secondary"}]
    BY DEF Init
  <2>4. Init => /\ consecutive_failures \in 0..CIRCUIT_FAILURE_THRESHOLD
                /\ calls_since_probe \in 0..CIRCUIT_HALF_OPEN_AFTER
                /\ spared \in 0..CIRCUIT_HALF_OPEN_AFTER
                /\ health \in {"up", "flaky", "down"}
    BY DEF Init
  <2> QED
    BY <2>1, <2>2, <2>3, <2>4 DEF TypeOK
<1>2. TypeOK /\ [Next]_vars => TypeOK'
  <2> SUFFICES ASSUME TypeOK, [Next]_vars
               PROVE  TypeOK'
    OBVIOUS
  <2>1. ASSUME NEW c \in Callers, Choose(c)
        PROVE  TypeOK'
    <3>1. calls_since_probe' \in 0..CIRCUIT_HALF_OPEN_AFTER
      BY <2>1 DEF Choose, CountTo, TypeOK
    <3>2. spared' \in 0..CIRCUIT_HALF_OPEN_AFTER
      BY <2>1 DEF Choose, SendTo, CountTo, TypeOK
    <3>3. pc' \in [Callers -> {"idle", "primary", "secondary"}]
      BY <2>1 DEF Choose, SendTo, TypeOK
    <3> QED
      BY <2>1, <3>1, <3>2, <3>3 DEF Choose, TypeOK
  <2>2. ASSUME NEW c \in Callers, PrimaryServes(c)
        PROVE  TypeOK'
    <3>1. tripped' \in BOOLEAN
      BY <2>2 DEF PrimaryServes
    <3>2. recent' \in [1..CIRCUIT_FAILURE_THRESHOLD -> {"served", "raised"}]
      BY <2>2, RememberType DEF PrimaryServes
    <3>3. /\ consecutive_failures' \in 0..CIRCUIT_FAILURE_THRESHOLD
          /\ calls_since_probe' \in 0..CIRCUIT_HALF_OPEN_AFTER
          /\ spared' \in 0..CIRCUIT_HALF_OPEN_AFTER
          /\ pc' \in [Callers -> {"idle", "primary", "secondary"}]
          /\ health' \in {"up", "flaky", "down"}
      BY <2>2 DEF PrimaryServes, TypeOK
    <3> QED
      BY <3>1, <3>2, <3>3 DEF TypeOK
  <2>3. ASSUME NEW c \in Callers, PrimaryRaises(c)
        PROVE  TypeOK'
    <3>1. consecutive_failures' \in 0..CIRCUIT_FAILURE_THRESHOLD
      BY <2>3 DEF PrimaryRaises, CountTo, TypeOK
    <3>2. tripped' \in BOOLEAN
      BY <2>3 DEF PrimaryRaises, TypeOK
    <3>3. recent' \in [1..CIRCUIT_FAILURE_THRESHOLD -> {"served", "raised"}]
      BY <2>3, RememberType DEF PrimaryRaises
    <3>4. /\ calls_since_probe' \in 0..CIRCUIT_HALF_OPEN_AFTER
          /\ spared' \in 0..CIRCUIT_HALF_OPEN_AFTER
          /\ pc' \in [Callers -> {"idle", "primary", "secondary"}]
          /\ health' \in {"up", "flaky", "down"}
      BY <2>3 DEF PrimaryRaises, TypeOK
    <3> QED
      BY <3>1, <3>2, <3>3, <3>4 DEF TypeOK
  <2>4. ASSUME NEW c \in Callers, SecondaryEnds(c)
        PROVE  TypeOK'
    BY <2>4 DEF SecondaryEnds, TypeOK
  <2>5. CASE HealthChanges
    BY <2>5 DEF HealthChanges, TypeOK
  <2>6. CASE UNCHANGED vars
    BY <2>6 DEF vars, TypeOK
  <2> QED
    BY <2>1, <2>2, <2>3, <2>4, <2>5, <2>6 DEF Next, Call
<1> QED
  BY <1>1, <1>2, PTL DEF Spec

-----------------------------------------------------------------------------
(* The counter is the length of the run of failures that ends with the     *)
(* latest outcome, and the flag says whether it has reached the threshold. *)

Counted ==
  /\ \A i \in 1..consecutive_failures : recent[i] = "raised"
  /\ consecutive_failures < CIRCUIT_FAILURE_THRESHOLD =>
       recent[consecutive_failures + 1] = "served"
  /\ tripped <=> consecutive_failures = CIRCUIT_FAILURE_THRESHOLD

LEMMA CountedInductive ==
  ASSUME TypeOK, Counted, [Next]_vars
  PROVE  Counted'
<1>1. ASSUME NEW c \in Callers, PrimaryServes(c)
      PROVE  Counted'
  <2>1. consecutive_failures' = 0 /\ ~tripped' /\ recent'[1] = "served"
    BY <1>1, RememberType DEF PrimaryServes
  <2> QED
    BY <2>1 DEF Counted
<1>2. ASSUME NEW c \in Callers, PrimaryRaises(c)
      PROVE  Counted'
  <2>1. /\ recent'[1] = "raised"
        /\ \A i \in 2..CIRCUIT_FAILURE_THRESHOLD : recent'[i] = recent[i - 1]
    BY <1>2, RememberType DEF PrimaryRaises
  <2>2. tripped' <=> consecutive_failures' = CIRCUIT_FAILURE_THRESHOLD
    <3>1. tripped' <=> tripped \/ consecutive_failures' >= CIRCUIT_FAILURE_THRESHOLD
      BY <1>2 DEF PrimaryRaises
    <3>2. consecutive_failures = CIRCUIT_FAILURE_THRESHOLD =>
            consecutive_failures' = CIRCUIT_FAILURE_THRESHOLD
      BY <1>2 DEF PrimaryRaises, CountTo
    <3>3. consecutive_failures' >= CIRCUIT_FAILURE_THRESHOLD <=>
            consecutive_failures' = CIRCUIT_FAILURE_THRESHOLD
      BY <1>2 DEF PrimaryRaises, CountTo, TypeOK
    <3> QED
      BY <3>1, <3>2, <3>3 DEF Counted
  <2>3. CASE consecutive_failures < CIRCUIT_FAILURE_THRESHOLD
    <3>1. consecutive_failures' = consecutive_failures + 1
      BY <1>2, <2>3 DEF PrimaryRaises, CountTo
    <3>2. \A i \in 1..consecutive_failures' : recent'[i] = "raised"
      BY <2>1, <2>3, <3>1 DEF Counted, TypeOK
    <3>3. consecutive_failures' < CIRCUIT_FAILURE_THRESHOLD =>
            recent'[consecutive_failures' + 1] = "served"
      BY <2>1, <2>3, <3>1 DEF Counted, TypeOK
    <3> QED
      BY <2>2, <3>2, <3>3 DEF Counted
  <2>4. CASE ~(consecutive_failures < CIRCUIT_FAILURE_THRESHOLD)
    <3>1. /\ consecutive_failures = CIRCUIT_FAILURE_THRESHOLD
          /\ consecutive_failures' = CIRCUIT_FAILURE_THRESHOLD
      BY <1>2, <2>4 DEF PrimaryRaises, CountTo, TypeOK
    <3>2. \A i \in 1..consecutive_failures' : recent'[i] = "raised"
      BY <2>1, <3>1 DEF Counted, TypeOK
    <3> QED
      BY <2>2, <3>1, <3>2 DEF Counted
  <2> QED
    BY <2>3, <2>4
<1>3. ASSUME UNCHANGED <<consecutive_failures, tripped, recent>>
      PROVE  Counted'
  BY <1>3 DEF Counted
<1> QED
  BY <1>1, <1>2, <1>3 DEF Next, Call, Choose, SecondaryEnds, HealthChanges, vars

\* However the calls of concurrent runs interleave, the circuit is open
\* exactly when the primary's last THRESHOLD calls to end all raised.
THEOREM OpensOnARow == Spec => []OpenIffFailedInARow
<1>1. Init => Counted
  BY DEF Init, Counted
<1>2. TypeOK /\ Counted => OpenIffFailedInARow
  BY DEF TypeOK, Counted, OpenIffFailedInARow
<1>3. TypeOK /\ Counted /\ [Next]_vars => Counted'
  BY CountedInductive
<1> QED
  BY <1>1, <1>2, <1>3, TypeCorrect, PTL DEF Spec

-----------------------------------------------------------------------------
(* With nobody at the primary, the code's counter has counted no more      *)
(* calls than were really spared.                                          *)

Spaced ==
  (\A c \in Callers : pc[c] # "primary") => calls_since_probe <= spared

LEMMA SpacedInductive ==
  ASSUME TypeOK, Spaced, [Next]_vars
  PROVE  Spaced'
<1>1. ASSUME NEW c \in Callers, Choose(c)
      PROVE  Spaced'
  <2>1. CASE tripped /\ calls_since_probe' < CIRCUIT_HALF_OPEN_AFTER
    <3>1. /\ calls_since_probe' = CountTo(CIRCUIT_HALF_OPEN_AFTER, calls_since_probe)
          /\ spared' = CountTo(CIRCUIT_HALF_OPEN_AFTER, spared)
          /\ pc' = [pc EXCEPT ![c] = "secondary"]
          /\ pc[c] = "idle"
      BY <1>1, <2>1 DEF Choose, SendTo
    <3>2. (\A d \in Callers : pc'[d] # "primary") => \A d \in Callers : pc[d] # "primary"
      BY <3>1 DEF TypeOK
    <3>3. calls_since_probe <= spared => calls_since_probe' <= spared'
      BY <3>1 DEF CountTo, TypeOK
    <3> QED
      BY <3>2, <3>3 DEF Spaced
  <2>2. CASE ~(tripped /\ calls_since_probe' < CIRCUIT_HALF_OPEN_AFTER)
    <3>1. pc'[c] = "primary"
      <4>1. pc' = [pc EXCEPT ![c] = "primary"]
        BY <1>1, <2>2 DEF Choose, SendTo
      <4> QED
        BY <4>1 DEF TypeOK
    <3> QED
      BY <3>1 DEF Spaced
  <2> QED
    BY <2>1, <2>2
<1>2. ASSUME NEW c \in Callers, PrimaryServes(c) \/ PrimaryRaises(c)
      PROVE  Spaced'
  BY <1>2 DEF PrimaryServes, PrimaryRaises, Spaced, TypeOK
<1>3. ASSUME NEW c \in Callers, SecondaryEnds(c)
      PROVE  Spaced'
  BY <1>3 DEF SecondaryEnds, Spaced, TypeOK
<1>4. CASE HealthChanges \/ UNCHANGED vars
  BY <1>4 DEF HealthChanges, vars, Spaced
<1> QED
  BY <1>1, <1>2, <1>3, <1>4 DEF Next, Call

\* A call that finds the circuit open and nobody at the primary goes there
\* only after the number of calls the code promises has been spared.
THEOREM LoneProbesWait == Spec => LoneProbesAreSpaced
<1> DEFINE Step == \A c \in Callers :
             /\ tripped /\ pc[c] = "idle" /\ pc'[c] = "primary"
             /\ \A other \in Callers : pc[other] # "primary"
             => spared >= CIRCUIT_HALF_OPEN_AFTER - 1
<1>1. Init => Spaced
  BY DEF Init, Spaced
<1>2. TypeOK /\ Spaced /\ [Next]_vars => Spaced'
  BY SpacedInductive
<1>3. TypeOK /\ Spaced /\ [Next]_vars => [Step]_vars
  <2> SUFFICES ASSUME TypeOK, Spaced, Next, NEW c \in Callers,
                      tripped, pc[c] = "idle", pc'[c] = "primary",
                      \A other \in Callers : pc[other] # "primary"
               PROVE  spared >= CIRCUIT_HALF_OPEN_AFTER - 1
    BY DEF vars
  <2>1. Choose(c)
    BY DEF Next, Call, Choose, SendTo, PrimaryServes, PrimaryRaises,
           SecondaryEnds, HealthChanges, TypeOK
  <2>2. /\ calls_since_probe' = CountTo(CIRCUIT_HALF_OPEN_AFTER, calls_since_probe)
        /\ ~(calls_since_probe' < CIRCUIT_HALF_OPEN_AFTER)
    BY <2>1 DEF Choose, SendTo, TypeOK
  <2>3. calls_since_probe >= CIRCUIT_HALF_OPEN_AFTER - 1
    BY <2>2 DEF CountTo, TypeOK
  <2> QED
    BY <2>3 DEF Spaced, TypeOK
<1> QED
  BY <1>1, <1>2, <1>3, TypeCorrect, PTL DEF Spec, LoneProbesAreSpaced
=============================================================================
