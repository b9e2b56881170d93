---------------------------- MODULE LlmUsageProofs ----------------------------
(***************************************************************************)
(* Proofs about LlmUsage: what a run reports when nobody else's agent      *)
(* stage overlaps with its own, and what it reports at least when some do, *)
(* for any number of runs, calls, retries and tokens, and whatever the     *)
(* overlaps lose.                                                          *)
(***************************************************************************)
EXTENDS LlmUsage, TLAPS

USE BoundAssumption

Places == {"ready", "agent", "calling", "asleep", "adding", "reported", "failed"}

Amounts == [tokens : Int, calls : Int]

Typed ==
  /\ total \in Amounts
  /\ pc \in [Runs -> Places]
  /\ before \in [Runs -> Amounts]
  /\ register \in [Runs -> Int]
  /\ usage \in [Runs -> Int]
  /\ reported \in [Runs -> Amounts]
  /\ own \in [Runs -> Amounts]
  /\ alone \in [Runs -> BOOLEAN]

LEMMA NothingIsAmounts == Nothing \in Amounts
  BY DEF Nothing, Amounts

LEMMA TypedInit == Init => Typed
  BY NothingIsAmounts DEF Init, Typed, Places

LEMMA TypedNext == Typed /\ [Next]_vars => Typed'
<1> SUFFICES ASSUME Typed, [Next]_vars PROVE Typed'
  OBVIOUS
<1>1. ASSUME NEW r \in Runs, NEW place \in Places, Go(r, place)
      PROVE  pc' \in [Runs -> Places]
  BY <1>1 DEF Go, Typed
<1>2. ASSUME NEW r \in Runs, SnapshotBefore(r) PROVE Typed'
  <2>1. pc' \in [Runs -> Places]
    BY <1>1, <1>2 DEF SnapshotBefore, Places
  <2>2. alone' \in [Runs -> BOOLEAN]
    <3>1. ASSUME NEW s \in Runs
          PROVE  (IF s = r THEN \A o \in Runs \ {r} : ~InAgentStage(o)
                  ELSE alone[s] /\ ~InAgentStage(s)) \in BOOLEAN
      BY DEF Typed
    <3> QED  BY <1>2, <3>1 DEF SnapshotBefore
  <2> QED  BY <1>2, <2>1, <2>2 DEF SnapshotBefore, Snapshot, Typed
<1>3. ASSUME NEW r \in Runs, SnapshotAfter(r) PROVE Typed'
  <2>1. pc' \in [Runs -> Places]
    BY <1>1, <1>3 DEF SnapshotAfter, Places
  <2>2. [f \in {"tokens", "calls"} |-> total[f] - before[r][f]] \in Amounts
    BY DEF Typed, Amounts
  <2> QED  BY <1>3, <2>1, <2>2 DEF SnapshotAfter, Typed
<1>4. ASSUME NEW r \in Runs, Chat(r) \/ Retry(r) \/ Wake(r) \/ ChatRaises(r) PROVE Typed'
  <2>1. pc' \in [Runs -> Places]
    BY <1>1, <1>4 DEF Chat, Retry, Wake, ChatRaises, Places
  <2> QED  BY <1>4, <2>1 DEF Chat, Retry, Wake, ChatRaises, Typed
<1>5. ASSUME NEW r \in Runs, ReadTotal(r) PROVE Typed'
  <2>1. pc' \in [Runs -> Places]
    BY <1>1, <1>5 DEF ReadTotal, Places
  <2>2. register' \in [Runs -> Int]
    BY <1>5 DEF ReadTotal, Typed, Amounts
  <2>3. PICK n \in 0..MaxTokens :
          /\ usage' = [usage EXCEPT ![r] = n]
          /\ own' = [own EXCEPT ![r].tokens = @ + n, ![r].calls = @ + 1]
    BY <1>5 DEF ReadTotal
  <2>4. usage' \in [Runs -> Int] /\ own' \in [Runs -> Amounts]
    BY <2>3 DEF Typed, Amounts
  <2> QED  BY <1>5, <2>1, <2>2, <2>4 DEF ReadTotal, Typed
<1>6. ASSUME NEW r \in Runs, WriteTotal(r) PROVE Typed'
  <2>1. pc' \in [Runs -> Places]
    BY <1>1, <1>6 DEF WriteTotal, Places
  <2>2. total' \in Amounts /\ register' \in [Runs -> Int] /\ usage' \in [Runs -> Int]
    BY <1>6 DEF WriteTotal, Typed, Amounts
  <2> QED  BY <1>6, <2>1, <2>2 DEF WriteTotal, Typed
<1>7. ASSUME NEW r \in Runs, Recover(r) PROVE Typed'
  <2>1. pc' \in [Runs -> Places]
    BY <1>1, <1>7 DEF Recover, Places
  <2>2. total' \in Amounts
    BY <1>7 DEF Recover, RecoveredTotal, Typed, Amounts
  <2>3. own' \in [Runs -> Amounts]
    BY <1>7 DEF Recover, Typed, Amounts
  <2> QED  BY <1>7, <2>1, <2>2, <2>3 DEF Recover, Typed
<1>8. CASE UNCHANGED vars
  BY <1>8 DEF vars, Typed
<1> QED  BY <1>2, <1>3, <1>4, <1>5, <1>6, <1>7, <1>8 DEF Next, Step, Answer

-----------------------------------------------------------------------------
(* The accounts of a sole run                                              *)

\* What r's responses added to the totals so far; one whose tokens are read but
\* not written back is missing.
Pending(r) == IF pc[r] = "adding" THEN [tokens |-> usage[r], calls |-> 1] ELSE Nothing

Balanced(r) ==
  /\ own[r].tokens = total.tokens - before[r].tokens + Pending(r).tokens
  /\ own[r].calls = total.calls - before[r].calls + Pending(r).calls
  /\ pc[r] = "adding" => register[r] = total.tokens

\* SoleRunIsExact is not inductive: until r reports, its books balance only
\* because nobody else's thread is where it could add to the totals.
Books(r) ==
  /\ pc[r] = "ready" => own[r] = Nothing
  /\ InAgentStage(r) /\ alone[r] => Balanced(r) /\ \A o \in Runs \ {r} : ~InAgentStage(o)
  /\ pc[r] = "reported" /\ alone[r] => reported[r] = own[r]

\* r's own steps.
LEMMA OwnStep ==
  ASSUME Typed, NEW r \in Runs, Books(r), Step(r)
  PROVE  Books(r)'
<1> USE DEF Books, Balanced, Pending, InAgentStage, Go, Nothing
<1>1. CASE SnapshotBefore(r)
  BY <1>1 DEF SnapshotBefore, Snapshot, Typed, Amounts
<1>2. CASE SnapshotAfter(r)
  BY <1>2 DEF SnapshotAfter, Typed, Amounts
<1>3. CASE Chat(r) \/ Retry(r) \/ Wake(r) \/ ChatRaises(r)
  BY <1>3 DEF Chat, Retry, Wake, ChatRaises, Typed
<1>4. CASE ReadTotal(r)
  BY <1>4 DEF ReadTotal, Typed, Amounts
<1>5. CASE WriteTotal(r)
  <2>1. /\ pc[r] = "adding" /\ pc'[r] = "agent"
        /\ total' = [tokens |-> register[r] + usage[r], calls |-> total.calls + 1]
        /\ UNCHANGED <<own, before, alone>>
    BY <1>5 DEF WriteTotal, Typed
  <2>2. ASSUME alone[r] PROVE Balanced(r)'
    <3>1. /\ own[r].tokens = total.tokens - before[r].tokens + usage[r]
          /\ own[r].calls = total.calls - before[r].calls + 1
          /\ register[r] = total.tokens
      BY <2>1, <2>2
    <3>2. /\ own[r] \in Amounts /\ before[r] \in Amounts /\ total \in Amounts
          /\ register[r] \in Int /\ usage[r] \in Int
      BY DEF Typed
    <3>3. /\ own'[r].tokens = total'.tokens - before'[r].tokens
          /\ own'[r].calls = total'.calls - before'[r].calls
      BY <2>1, <3>1, <3>2 DEF Amounts
    <3>4. /\ own'[r].tokens = total'.tokens - before'[r].tokens + 0
          /\ own'[r].calls = total'.calls - before'[r].calls + 0
      BY <2>1, <3>2, <3>3 DEF Amounts
    <3> QED  BY <2>1, <3>4
  <2>3. alone[r] => \A o \in Runs \ {r} : ~InAgentStage(o)'
    <3>1. \A o \in Runs \ {r} : pc'[o] = pc[o]
      BY <1>5 DEF WriteTotal, Typed
    <3>2. alone[r] => \A o \in Runs \ {r} : ~InAgentStage(o)
      BY <2>1
    <3> QED  BY <3>1, <3>2
  <2> QED  BY <2>1, <2>2, <2>3
<1>6. CASE Recover(r)
  BY <1>6 DEF Recover, RecoveredTotal, Typed, Amounts
<1> QED  BY <1>1, <1>2, <1>3, <1>4, <1>5, <1>6 DEF Step, Answer

\* The steps of others.
LEMMA OthersStep ==
  ASSUME Typed, NEW r \in Runs, NEW o \in Runs \ {r}, Books(r), Step(o)
  PROVE  Books(r)'
<1>1. pc'[r] = pc[r] /\ own'[r] = own[r] /\ reported'[r] = reported[r]
  BY DEF Step, Answer, SnapshotBefore, SnapshotAfter, Chat, Retry, Wake, ChatRaises, ReadTotal,
         WriteTotal, Recover, Go, Typed
<1>2. CASE SnapshotBefore(o)
  <2>1. alone'[r] = (alone[r] /\ ~InAgentStage(r))
    BY <1>2 DEF SnapshotBefore
  <2> QED  BY <1>1, <2>1 DEF Books, InAgentStage
<1>3. CASE InAgentStage(o) /\ alone' = alone
  BY <1>1, <1>3 DEF Books, InAgentStage
<1> QED
  BY <1>2, <1>3 DEF Step, Answer, SnapshotAfter, Chat, Retry, Wake, ChatRaises, ReadTotal,
         WriteTotal, Recover, InAgentStage

-----------------------------------------------------------------------------
(* The calls of a run others overlap with                                  *)

\* Calls r has made that the total does not show yet.
Uncounted(r) == IF pc[r] = "adding" THEN 1 ELSE 0

\* What others add meanwhile only raises the total of calls.
Counted(r) ==
  /\ pc[r] = "ready" => own[r].calls = 0
  /\ InAgentStage(r) => own[r].calls <= total.calls - before[r].calls + Uncounted(r)
  /\ pc[r] = "reported" => own[r].calls <= reported[r].calls

LEMMA OwnStepCounts ==
  ASSUME Typed, NEW r \in Runs, Counted(r), Step(r)
  PROVE  Counted(r)'
<1> USE DEF Counted, Uncounted, InAgentStage, Go
<1>1. CASE SnapshotBefore(r)
  BY <1>1 DEF SnapshotBefore, Snapshot, Typed, Amounts
<1>2. CASE SnapshotAfter(r)
  BY <1>2 DEF SnapshotAfter, Typed, Amounts
<1>3. CASE Chat(r) \/ Retry(r) \/ Wake(r) \/ ChatRaises(r)
  BY <1>3 DEF Chat, Retry, Wake, ChatRaises, Typed
<1>4. CASE ReadTotal(r)
  BY <1>4 DEF ReadTotal, Typed, Amounts
<1>5. CASE WriteTotal(r)
  BY <1>5 DEF WriteTotal, Typed, Amounts
<1>6. CASE Recover(r)
  BY <1>6 DEF Recover, RecoveredTotal, Typed, Amounts
<1> QED  BY <1>1, <1>2, <1>3, <1>4, <1>5, <1>6 DEF Step, Answer

LEMMA OthersStepCounts ==
  ASSUME Typed, NEW r \in Runs, NEW o \in Runs \ {r}, Counted(r), Step(o)
  PROVE  Counted(r)'
<1>1. /\ pc'[r] = pc[r] /\ own'[r] = own[r]
      /\ before'[r] = before[r] /\ reported'[r] = reported[r]
  BY DEF Step, Answer, SnapshotBefore, SnapshotAfter, Chat, Retry, Wake, ChatRaises, ReadTotal,
         WriteTotal, Recover, Go, Typed
<1>2. total'.calls >= total.calls
  <2>1. total \in Amounts
    BY DEF Typed
  <2>2. \/ total' = total
        \/ total' = [tokens |-> register[o] + usage[o], calls |-> total.calls + 1]
        \/ total' = [total EXCEPT !.calls = @ + 1]
    BY DEF Step, Answer, SnapshotBefore, SnapshotAfter, Chat, Retry, Wake, ChatRaises, ReadTotal,
           WriteTotal, Recover, RecoveredTotal
  <2> QED  BY <2>1, <2>2 DEF Amounts
<1>3. /\ own[r].calls \in Int /\ before[r].calls \in Int /\ reported[r].calls \in Int
      /\ total.calls \in Int /\ total'.calls \in Int
  BY TypedNext DEF Next, Typed, Amounts
<1>4. Uncounted(r)' = Uncounted(r) /\ Uncounted(r) \in Int
  BY <1>1 DEF Uncounted
<1>5. InAgentStage(r)' = InAgentStage(r)
  BY <1>1 DEF InAgentStage
<1> QED  BY <1>1, <1>2, <1>3, <1>4, <1>5 DEF Counted

\* A run nobody else's agent stage overlaps with reports its own tokens and
\* calls exactly, whatever was added or lost before it; and no run, whoever
\* overlaps with it, reports fewer calls than it made.
THEOREM ReportsAttributeUsage == Spec => []UsageIsAttributed
<1> DEFINE IInv == Typed /\ \A r \in Runs : Books(r) /\ Counted(r)
<1>1. Init => IInv
  BY TypedInit DEF Init, Books, Counted, InAgentStage, Nothing
<1>2. IInv /\ [Next]_vars => IInv'
  <2> SUFFICES ASSUME IInv, [Next]_vars, NEW r \in Runs PROVE Books(r)' /\ Counted(r)'
    BY TypedNext
  <2>1. ASSUME NEW o \in Runs, Step(o) PROVE Books(r)' /\ Counted(r)'
    BY <2>1, OwnStep, OthersStep, OwnStepCounts, OthersStepCounts
  <2>2. CASE UNCHANGED vars
    BY <2>2 DEF vars, Books, Balanced, Pending, Counted, Uncounted, InAgentStage
  <2> QED  BY <2>1, <2>2 DEF Next
<1>3. IInv => UsageIsAttributed
  <2> SUFFICES ASSUME IInv, NEW r \in Runs, pc[r] = "reported"
               PROVE  /\ alone[r] => reported[r] = own[r]
                      /\ reported[r].calls >= own[r].calls
    BY DEF UsageIsAttributed, SoleRunIsExact, CallsAreCounted
  <2>1. reported[r].calls \in Int /\ own[r].calls \in Int
    BY DEF Typed, Amounts
  <2> QED  BY <2>1 DEF Books, Counted
<1> QED  BY <1>1, <1>2, <1>3, PTL DEF Spec

-----------------------------------------------------------------------------
(* How long a chat() can take.                                             *)

Tries ==
  /\ pc \in [Runs -> Places]
  /\ attempt \in [Runs -> 0..MAX_RETRIES]

LEMMA TriesInit == Init => Tries
  BY DEF Init, Tries, Places

LEMMA TriesNext == Tries /\ [Next]_vars => Tries'
<1> SUFFICES ASSUME Tries, [Next]_vars PROVE Tries'
  OBVIOUS
<1>1. CASE UNCHANGED vars
  BY <1>1 DEF vars, Tries
<1> SUFFICES ASSUME NEW r \in Runs, Step(r) PROVE Tries'
  BY <1>1 DEF Next
<1>2. pc' \in [Runs -> Places]
  <2>1. PICK place \in Places : Go(r, place)
    BY DEF Step, Answer, SnapshotBefore, Chat, Retry, Wake, ReadTotal, WriteTotal, Recover,
           ChatRaises, SnapshotAfter, Places
  <2> QED  BY <2>1 DEF Go, Tries
<1>3. CASE Retry(r)
  BY <1>2, <1>3 DEF Retry, Tries
<1>4. CASE attempt' \in {attempt, [attempt EXCEPT ![r] = 0]}
  BY <1>2, <1>4 DEF Tries
<1> QED
  BY <1>3, <1>4 DEF Step, Answer, SnapshotBefore, Chat, Wake, ReadTotal, WriteTotal, Recover,
                    ChatRaises, SnapshotAfter

\* What is left of a chat() at most: two steps for each retry, and the answer,
\* which takes two if it is a message.
StepsLeft(place, tried) ==
  CASE place = "calling" -> 2 * (MAX_RETRIES - tried) + 2
    [] place = "asleep" -> 2 * (MAX_RETRIES - tried) + 3
    [] place = "adding" -> 1
    [] OTHER -> 0

LEMMA LeftByPlace ==
  ASSUME NEW place \in Places, NEW tried \in 0..MAX_RETRIES
  PROVE  /\ StepsLeft(place, tried) \in Nat
         /\ place = "calling" => StepsLeft(place, tried) = 2 * (MAX_RETRIES - tried) + 2
         /\ place = "asleep" => StepsLeft(place, tried) = 2 * (MAX_RETRIES - tried) + 3
         /\ place = "adding" => StepsLeft(place, tried) = 1
         /\ place \in {"agent", "failed"} => StepsLeft(place, tried) = 0
<1>1. 2 * (MAX_RETRIES - tried) \in Nat
  OBVIOUS
<1>2. \/ StepsLeft(place, tried) = 2 * (MAX_RETRIES - tried) + 2
      \/ StepsLeft(place, tried) = 2 * (MAX_RETRIES - tried) + 3
      \/ StepsLeft(place, tried) \in {0, 1}
  BY DEF StepsLeft, Places
<1>3. StepsLeft(place, tried) \in Nat
  BY <1>1, <1>2
<1>4. /\ place = "calling" => StepsLeft(place, tried) = 2 * (MAX_RETRIES - tried) + 2
      /\ place = "asleep" => StepsLeft(place, tried) = 2 * (MAX_RETRIES - tried) + 3
      /\ place = "adding" => StepsLeft(place, tried) = 1
      /\ place \in {"agent", "failed"} => StepsLeft(place, tried) = 0
  BY DEF StepsLeft
<1> QED  BY <1>3, <1>4

\* Every step of a chat() brings its end nearer, however the service answers
\* and whatever the other runs do (GroqClient.chat: every refusal draws on the
\* one budget): it is over after at most 2 + 2 * MAX_RETRIES steps of its own.
ChatsAreBounded ==
  [][\A r \in Runs :
       pc[r] \in {"calling", "asleep", "adding"} =>
         /\ StepsLeft(pc'[r], attempt'[r]) \in Nat
         /\ \/ StepsLeft(pc'[r], attempt'[r]) < StepsLeft(pc[r], attempt[r])
            \/ UNCHANGED <<pc[r], attempt[r]>>]_vars

THEOREM EveryStepCounts == Spec => ChatsAreBounded
<1>1. Tries /\ Tries' /\ [Next]_vars
        => [\A r \in Runs :
              pc[r] \in {"calling", "asleep", "adding"} =>
                /\ StepsLeft(pc'[r], attempt'[r]) \in Nat
                /\ \/ StepsLeft(pc'[r], attempt'[r]) < StepsLeft(pc[r], attempt[r])
                   \/ UNCHANGED <<pc[r], attempt[r]>>]_vars
  <2> SUFFICES ASSUME Tries, Tries', Next, NEW r \in Runs,
                      pc[r] \in {"calling", "asleep", "adding"}
               PROVE  /\ StepsLeft(pc'[r], attempt'[r]) \in Nat
                      /\ \/ StepsLeft(pc'[r], attempt'[r]) < StepsLeft(pc[r], attempt[r])
                         \/ UNCHANGED <<pc[r], attempt[r]>>
    OBVIOUS
  <2> DEFINE left == StepsLeft(pc[r], attempt[r])
             after == StepsLeft(pc'[r], attempt'[r])
  <2>1. /\ pc \in [Runs -> Places] /\ pc[r] \in Places /\ pc'[r] \in Places
        /\ attempt \in [Runs -> 0..MAX_RETRIES]
        /\ attempt[r] \in 0..MAX_RETRIES /\ attempt'[r] \in 0..MAX_RETRIES
    BY DEF Tries
  <2>2. /\ pc[r] = "calling" => left = 2 * (MAX_RETRIES - attempt[r]) + 2
        /\ pc[r] = "asleep" => left = 2 * (MAX_RETRIES - attempt[r]) + 3
        /\ pc[r] = "adding" => left = 1
    BY <2>1, LeftByPlace
  <2>3. /\ after \in Nat
        /\ pc'[r] = "calling" => after = 2 * (MAX_RETRIES - attempt'[r]) + 2
        /\ pc'[r] = "asleep" => after = 2 * (MAX_RETRIES - attempt'[r]) + 3
        /\ pc'[r] = "adding" => after = 1
        /\ pc'[r] \in {"agent", "failed"} => after = 0
    BY <2>1, LeftByPlace
  <2> HIDE DEF left, after
  <2>4. PICK s \in Runs : Step(s)
    BY DEF Next
  <2>5. CASE s # r
    <3>1. pc'[r] = pc[r]
      BY <2>1, <2>4, <2>5 DEF Step, Answer, SnapshotBefore, Chat, Retry, Wake, ReadTotal,
                              WriteTotal, Recover, ChatRaises, SnapshotAfter, Go
    <3>2. attempt'[r] = attempt[r]
      BY <2>1, <2>4, <2>5 DEF Step, Answer, SnapshotBefore, Chat, Retry, Wake, ReadTotal,
                              WriteTotal, Recover, ChatRaises, SnapshotAfter
    <3> QED  BY <2>3, <3>1, <3>2 DEF after
  <2>6. CASE s = r
    <3>1. Answer(r)
      BY <2>4, <2>6 DEF Step, SnapshotBefore, Chat, SnapshotAfter
    <3>2. after < left
      <4>1. CASE Retry(r)
        <5>1. /\ pc[r] = "calling" /\ pc'[r] = "asleep" /\ attempt'[r] = attempt[r] + 1
          BY <2>1, <4>1 DEF Retry, Go
        <5> QED  BY <2>1, <2>2, <2>3, <5>1
      <4>2. CASE Wake(r)
        <5>1. /\ pc[r] = "asleep" /\ pc'[r] = "calling" /\ attempt'[r] = attempt[r]
          BY <2>1, <4>2 DEF Wake, Go
        <5> QED  BY <2>1, <2>2, <2>3, <5>1
      <4>3. CASE ReadTotal(r)
        <5>1. pc[r] = "calling" /\ pc'[r] = "adding"
          BY <2>1, <4>3 DEF ReadTotal, Go
        <5> QED  BY <2>1, <2>2, <2>3, <5>1
      <4>4. CASE WriteTotal(r)
        <5>1. pc[r] = "adding" /\ pc'[r] = "agent"
          BY <2>1, <4>4 DEF WriteTotal, Go
        <5> QED  BY <2>2, <2>3, <5>1
      <4>5. CASE Recover(r) \/ ChatRaises(r)
        <5>1. pc[r] = "calling" /\ pc'[r] \in {"agent", "failed"}
          BY <2>1, <4>5 DEF Recover, ChatRaises, Go
        <5> QED  BY <2>1, <2>2, <2>3, <5>1
      <4> QED  BY <3>1, <4>1, <4>2, <4>3, <4>4, <4>5 DEF Answer
    <3> QED  BY <2>3, <3>2 DEF left, after
  <2> QED  BY <2>5, <2>6
<1>2. Spec => []Tries
  BY TriesInit, TriesNext, PTL DEF Spec
<1> QED  BY <1>1, <1>2, PTL DEF Spec, ChatsAreBounded
=============================================================================
