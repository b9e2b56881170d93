----------------------- MODULE OpenRouterClientProofs -----------------------
(***************************************************************************)
(* Proofs about OpenRouterClient, for any number of threads, any range of  *)
(* tokens, any margin and any number of retries.                           *)
(***************************************************************************)
EXTENDS OpenRouterClient, FiniteSetTheorems, TLAPS

-----------------------------------------------------------------------------
(* Types.                                                                  *)

LEMMA CallFields ==
  ASSUME NEW x \in CallState
  PROVE  /\ x.at \in {"idle", "loop", "sent", "answered", "asleep"}
         /\ x.wait_attempt \in 0..MAX_RETRIES
         /\ x.credit_attempt \in 0..MAX_CREDIT_SHORTFALL_RETRIES
         /\ x.asked \in 0..MAX_TOKENS /\ x.affordable \in 0..MAX_TOKENS
BY DEF CallState

LEMMA IdleType == Idle \in CallState /\ [Idle EXCEPT !.at = "loop"] \in CallState
BY TokensAssumption, RetriesAssumption DEF Idle, CallState

LEMMA NewCap ==
  ASSUME NEW affordable \in 0..MAX_TOKENS, affordable >= MIN_VIABLE_TOKENS
  PROVE  /\ AtLeast(affordable - MARGIN, MIN_VIABLE_TOKENS) \in MIN_VIABLE_TOKENS..MAX_TOKENS
         /\ AtLeast(affordable - MARGIN, MIN_VIABLE_TOKENS) <= affordable
BY TokensAssumption DEF AtLeast

LEMMA InitType == Init => TypeOK
<1> SUFFICES ASSUME Init PROVE TypeOK
  OBVIOUS
<1>1. call \in [Callers -> CallState]
  BY IdleType DEF Init
<1>2. max_tokens \in MIN_VIABLE_TOKENS..MAX_TOKENS /\ learned \in 0..(MAX_TOKENS + 1)
  BY TokensAssumption DEF Init
<1> QED
  BY <1>1, <1>2 DEF Init, TypeOK

LEMMA NextType == TypeOK /\ [Next]_vars => TypeOK'
<1> SUFFICES ASSUME TypeOK, [Next]_vars PROVE TypeOK'
  OBVIOUS
<1>1. CASE UNCHANGED vars
  BY <1>1 DEF vars, TypeOK
<1> SUFFICES ASSUME NEW c \in Callers, Enter(c) \/ Step(c) PROVE TypeOK'
  BY <1>1 DEF Next
<1>2. /\ call \in [Callers -> CallState] /\ call[c] \in CallState
      /\ balance \in 0..MAX_TOKENS /\ learned \in 0..(MAX_TOKENS + 1)
      /\ max_tokens \in MIN_VIABLE_TOKENS..MAX_TOKENS /\ users \subseteq Callers
      /\ MAX_TOKENS \in Nat /\ MIN_VIABLE_TOKENS \in 0..MAX_TOKENS
  BY TokensAssumption DEF TypeOK
<1>3. ASSUME NEW x \in CallState, call' = [call EXCEPT ![c] = x],
             balance' \in 0..MAX_TOKENS, learned' \in 0..(MAX_TOKENS + 1),
             max_tokens' \in MIN_VIABLE_TOKENS..MAX_TOKENS, users' \subseteq Callers
      PROVE  TypeOK'
  BY <1>2, <1>3 DEF TypeOK
<1>4. CASE Enter(c)
  BY <1>2, <1>3, <1>4, IdleType DEF Enter
<1>5. CASE Post(c)
  <2> DEFINE x == [call[c] EXCEPT !.at = "sent", !.asked = max_tokens,
                                  !.answer = "none", !.affordable = 0]
  <2>1. x \in CallState
    <3>1. max_tokens \in 0..MAX_TOKENS /\ 0 \in 0..MAX_TOKENS
      BY <1>2
    <3> QED
      BY <1>2, <3>1 DEF CallState
  <2>2. call' = [call EXCEPT ![c] = x]
    BY <1>2, <1>5 DEF Post
  <2> HIDE DEF x
  <2> QED
    BY <1>2, <1>3, <1>5, <2>1, <2>2 DEF Post
<1>6. CASE Serve(c)
  <2>1. /\ UNCHANGED <<max_tokens, learned, users>>
        /\ balance' \in {balance, AtLeast(balance - 1, 0)}
    BY <1>6 DEF Serve
  <2>2. balance' \in 0..MAX_TOKENS
    BY <1>2, <2>1 DEF AtLeast
  <2>3. \E x \in CallState : call' = [call EXCEPT ![c] = x]
    <3>1. CASE call' = [call EXCEPT ![c].at = "answered", ![c].answer = "shortfall",
                                    ![c].affordable = balance]
      <4> DEFINE x == [call[c] EXCEPT !.at = "answered", !.answer = "shortfall",
                                      !.affordable = balance]
      <4>1. x \in CallState
        BY <1>2 DEF CallState
      <4>2. call' = [call EXCEPT ![c] = x]
        BY <1>2, <3>1
      <4> QED
        BY <4>1, <4>2
    <3>2. ASSUME NEW answer \in {"ok", "bad_request", "error", "busy", "rate_limited"},
                 call' = [call EXCEPT ![c].at = "answered", ![c].answer = answer]
          PROVE  \E x \in CallState : call' = [call EXCEPT ![c] = x]
      <4> DEFINE x == [call[c] EXCEPT !.at = "answered", !.answer = answer]
      <4>1. x \in CallState
        BY <1>2 DEF CallState
      <4>2. call' = [call EXCEPT ![c] = x]
        BY <1>2, <3>2
      <4> QED
        BY <4>1, <4>2
    <3> QED
      BY <1>6, <3>1, <3>2 DEF Serve
  <2> QED
    BY <1>2, <1>3, <2>1, <2>2, <2>3
<1>7. CASE ReduceCap(c)
  <2> DEFINE x == [call[c] EXCEPT !.at = "loop", !.credit_attempt = @ + 1]
  <2>1. /\ call[c].affordable \in 0..MAX_TOKENS
        /\ call[c].affordable >= MIN_VIABLE_TOKENS
        /\ call[c].credit_attempt + 1 \in 0..MAX_CREDIT_SHORTFALL_RETRIES
    BY <1>2, <1>7, CallFields, RetriesAssumption DEF ReduceCap, Recoverable
  <2>2. x \in CallState
    BY <1>2, <2>1 DEF CallState
  <2>3. call' = [call EXCEPT ![c] = x]
    BY <1>2, <1>7 DEF ReduceCap
  <2>4. max_tokens' \in MIN_VIABLE_TOKENS..MAX_TOKENS
    BY <1>7, <2>1, NewCap DEF ReduceCap
  <2>5. learned' \in 0..(MAX_TOKENS + 1)
    BY <1>2, <1>7, <2>1 DEF ReduceCap, AtMost
  <2> HIDE DEF x
  <2> QED
    BY <1>2, <1>3, <1>7, <2>2, <2>3, <2>4, <2>5 DEF ReduceCap
<1>8. CASE Wait(c)
  <2> DEFINE x == [call[c] EXCEPT !.at = "asleep", !.wait_attempt = @ + 1]
  <2>1. call[c].wait_attempt + 1 \in 0..MAX_RETRIES
    BY <1>2, <1>8, CallFields, RetriesAssumption DEF Wait
  <2>2. x \in CallState
    BY <1>2, <2>1 DEF CallState
  <2>3. call' = [call EXCEPT ![c] = x]
    BY <1>2, <1>8 DEF Wait
  <2>4. learned' \in 0..(MAX_TOKENS + 1)
    BY <1>2, <1>8, CallFields DEF Wait, Hears, AtMost
  <2> HIDE DEF x
  <2> QED
    BY <1>2, <1>3, <1>8, <2>2, <2>3, <2>4 DEF Wait
<1>9. CASE Wake(c)
  <2> DEFINE x == [call[c] EXCEPT !.at = "loop"]
  <2>1. x \in CallState
    BY <1>2 DEF CallState
  <2>2. call' = [call EXCEPT ![c] = x]
    BY <1>2, <1>9 DEF Wake
  <2> HIDE DEF x
  <2> QED
    BY <1>2, <1>3, <1>9, <2>1, <2>2 DEF Wake
<1>10. CASE Leave(c)
  <2>1. call[c].affordable \in 0..MAX_TOKENS
    BY <1>2, CallFields
  <2>2. learned' \in 0..(MAX_TOKENS + 1)
    BY <1>2, <1>10, <2>1 DEF Leave, Hears, AtMost
  <2> QED
    BY <1>2, <1>3, <1>10, <2>2, IdleType DEF Leave
<1> QED
  BY <1>4, <1>5, <1>6, <1>7, <1>8, <1>9, <1>10 DEF Step

\* The cap that the threads share stays viable whatever they learn from
\* refusals that overlap, and no retry count exceeds its bound.
THEOREM CapStaysViable == Spec => []TypeOK
<1> QED
  BY InitType, NextType, PTL DEF Spec

-----------------------------------------------------------------------------
(* One thread.                                                             *)

Sole == \A c, d \in users : c = d

\* What the only user's call knows: it asks for the cap as it is, a refusal
\* names the balance, and once it has lowered the cap it is not refused again
\* before it ends, for only a served request costs anything.
Learning(c) ==
  /\ call[c].at \in {"sent", "answered"} => call[c].asked = max_tokens
  /\ call[c].at = "answered" /\ call[c].answer = "shortfall" =>
       /\ call[c].affordable = balance /\ balance < max_tokens
       /\ call[c].credit_attempt = 0
  /\ \/ call[c].credit_attempt = 0
     \/ call[c].at = "answered" /\ call[c].answer \in {"ok", "bad_request", "error"}
     \/ balance >= max_tokens

\* The cap is at most what was named, unless too little is left for ever, or
\* refusals are never retried.
CapKnows ==
  \/ learned >= max_tokens
  \/ balance < MIN_VIABLE_TOKENS
  \/ MAX_CREDIT_SHORTFALL_RETRIES = 0

SoleInv ==
  /\ IsFiniteSet(users)
  /\ \A c \in Callers \ users : call[c].at = "idle"
  /\ Sole => CapKnows /\ \A c \in users : Learning(c)

LEMMA AtMostOne ==
  ASSUME NEW S, IsFiniteSet(S), Cardinality(S) <= 1
  PROVE  \A c, d \in S : c = d
<1>1. Cardinality(S) \in Nat
  BY FS_CardinalityType
<1>2. CASE Cardinality(S) = 0
  BY <1>2, FS_EmptySet
<1>3. CASE Cardinality(S) = 1
  <2>1. PICK x : S = {x}
    BY <1>3, FS_Singleton
  <2> QED
    BY <2>1
<1> QED
  BY <1>1, <1>2, <1>3

LEMMA InitSole == Init => SoleInv
<1> SUFFICES ASSUME Init PROVE SoleInv
  OBVIOUS
<1>1. IsFiniteSet(users) /\ users = {}
  BY FS_EmptySet DEF Init
<1>2. \A c \in Callers : call[c].at = "idle"
  BY DEF Init, Idle
<1>3. CapKnows
  BY TokensAssumption DEF Init, CapKnows
<1> QED
  BY <1>1, <1>2, <1>3 DEF SoleInv

\* What the only user's refusal can teach: less than anything named before.
LEMMA RefusalIsNews ==
  ASSUME TypeOK, SoleInv, Sole, NEW c \in Callers,
         call[c].at = "answered", call[c].answer = "shortfall", Recoverable(c)
  PROVE  /\ call[c].affordable < learned /\ call[c].affordable < max_tokens
         /\ call[c].affordable = balance
<1>1. c \in users
  BY DEF SoleInv
<1>2. Learning(c) /\ CapKnows
  BY <1>1 DEF SoleInv
<1>3. call[c].affordable = balance /\ balance < max_tokens
  BY <1>2 DEF Learning
<1>4. MAX_CREDIT_SHORTFALL_RETRIES # 0
  <2>1. call[c].credit_attempt \in 0..MAX_CREDIT_SHORTFALL_RETRIES
    BY CallFields DEF TypeOK
  <2> QED
    BY <2>1, RetriesAssumption DEF Recoverable
<1>5. balance >= MIN_VIABLE_TOKENS
  BY <1>3 DEF Recoverable
<1>6. /\ balance \in Int /\ MIN_VIABLE_TOKENS \in Int /\ learned \in Int
      /\ max_tokens \in Int
  BY TokensAssumption DEF TypeOK
<1>7. learned >= max_tokens
  BY <1>2, <1>4, <1>5, <1>6 DEF CapKnows
<1> QED
  BY <1>3, <1>6, <1>7

\* What makes nothing of the only user's refusal: it is so for good.
LEMMA NothingToLearn ==
  ASSUME TypeOK, NEW c \in Callers, Learning(c),
         call[c].at = "answered", call[c].answer = "shortfall", ~Recoverable(c)
  PROVE  balance < MIN_VIABLE_TOKENS \/ MAX_CREDIT_SHORTFALL_RETRIES = 0
<1>1. call[c].affordable = balance /\ call[c].credit_attempt = 0
  BY DEF Learning
<1>2. balance \in Int /\ MIN_VIABLE_TOKENS \in Int
  BY TokensAssumption DEF TypeOK
<1> QED
  BY <1>1, <1>2, RetriesAssumption DEF Recoverable

LEMMA NextSole == TypeOK /\ SoleInv /\ [Next]_vars => SoleInv'
<1> SUFFICES ASSUME TypeOK, SoleInv, [Next]_vars PROVE SoleInv'
  OBVIOUS
<1>1. CASE UNCHANGED vars
  BY <1>1 DEF vars, SoleInv, Sole, CapKnows, Learning
<1> SUFFICES ASSUME NEW c \in Callers, Enter(c) \/ Step(c) PROVE SoleInv'
  BY <1>1 DEF Next
<1>2. /\ call \in [Callers -> CallState] /\ call[c] \in CallState
      /\ balance \in Int /\ learned \in Int /\ max_tokens \in Int
      /\ MIN_VIABLE_TOKENS \in Int /\ users \subseteq Callers
  BY TokensAssumption DEF TypeOK
<1>3. /\ users' = users \cup {c}
      /\ IsFiniteSet(users')
      /\ \A d \in Callers : d # c => call'[d] = call[d]
  <2>1. users' = users \cup {c}
    <3>1. Step(c) => call[c].at # "idle" /\ UNCHANGED users
      BY DEF Step, Post, Serve, ReduceCap, Wait, Wake, Leave
    <3>2. Step(c) => c \in users
      BY <3>1 DEF SoleInv
    <3> QED
      BY <3>1, <3>2 DEF Enter
  <2>2. IsFiniteSet(users')
    BY <2>1, FS_AddElement DEF SoleInv
  <2>3. \A d \in Callers : d # c => call'[d] = call[d]
    BY <1>2 DEF Enter, Step, Post, Serve, ReduceCap, Wait, Wake, Leave
  <2> QED
    BY <2>1, <2>2, <2>3
<1>4. \A d \in Callers \ users' : call'[d].at = "idle"
  BY <1>3 DEF SoleInv
<1> SUFFICES ASSUME Sole'
             PROVE  CapKnows' /\ Learning(c)'
  <2>1. Sole' => \A d \in users' : d = c
    BY <1>3 DEF Sole
  <2> QED
    BY <1>3, <1>4, <2>1 DEF SoleInv
<1>5. Sole /\ CapKnows
  BY <1>3 DEF Sole, SoleInv
<1>6. call[c].at # "idle" => c \in users /\ Learning(c)
  BY <1>5 DEF SoleInv
<1>7. CASE Enter(c)
  <2>1. call'[c].at = "loop" /\ call'[c].credit_attempt = 0
    BY <1>2, <1>7 DEF Enter, Idle
  <2> QED
    BY <1>5, <1>7, <2>1 DEF Enter, CapKnows, Learning
<1>8. CASE Post(c)
  <2>1. /\ call'[c].at = "sent" /\ call'[c].asked = max_tokens
        /\ call'[c].credit_attempt = call[c].credit_attempt
        /\ call[c].at = "loop" /\ UNCHANGED <<max_tokens, balance, learned>>
    BY <1>2, <1>8 DEF Post, CallState
  <2> QED
    BY <1>5, <1>6, <2>1 DEF CapKnows, Learning
<1>9. CASE Serve(c)
  <2>1. /\ call[c].at = "sent" /\ call'[c].at = "answered"
        /\ call'[c].asked = call[c].asked
        /\ call'[c].credit_attempt = call[c].credit_attempt
        /\ UNCHANGED <<max_tokens, learned>>
    BY <1>2, <1>9 DEF Serve, CallState
  <2>2. /\ balance' \in {balance, AtLeast(balance - 1, 0)}
        /\ \/ /\ balance < call[c].asked /\ UNCHANGED balance
              /\ call'[c].answer = "shortfall" /\ call'[c].affordable = balance
           \/ call'[c].answer \in {"ok", "bad_request", "error"}
           \/ UNCHANGED balance /\ call'[c].answer \in {"busy", "rate_limited", "error"}
    BY <1>2, <1>9 DEF Serve, CallState
  <2>3. balance' <= balance /\ balance' \in Int
    <3>1. balance \in 0..MAX_TOKENS
      BY DEF TypeOK
    <3> QED
      BY <2>2, <3>1, TokensAssumption DEF AtLeast
  <2>4. CapKnows'
    BY <1>2, <1>5, <2>1, <2>3 DEF CapKnows
  <2>5. /\ call[c].asked = max_tokens
        /\ call[c].credit_attempt = 0 \/ balance >= max_tokens
    BY <1>6, <2>1 DEF Learning
  <2>6. Learning(c)'
    <3>1. CASE /\ balance < call[c].asked /\ UNCHANGED balance
               /\ call'[c].answer = "shortfall" /\ call'[c].affordable = balance
      <4>1. balance < max_tokens /\ call[c].credit_attempt = 0
        BY <1>2, <2>5, <3>1
      <4> QED
        BY <2>1, <2>5, <3>1, <4>1 DEF Learning
    <3>2. CASE call'[c].answer \in {"ok", "bad_request", "error"}
      BY <2>1, <2>5, <3>2 DEF Learning
    <3>3. CASE UNCHANGED balance /\ call'[c].answer \in {"busy", "rate_limited", "error"}
      BY <2>1, <2>5, <3>3 DEF Learning
    <3> QED
      BY <2>2, <3>1, <3>2, <3>3
  <2> QED
    BY <2>4, <2>6
<1>10. CASE ReduceCap(c)
  <2>1. /\ call[c].affordable < learned /\ call[c].affordable = balance
        /\ call[c].affordable >= MIN_VIABLE_TOKENS
    BY <1>5, <1>10, RefusalIsNews DEF ReduceCap, Recoverable
  <2>2. call[c].affordable \in 0..MAX_TOKENS
    BY <1>2, CallFields
  <2>3. /\ call'[c].at = "loop" /\ UNCHANGED balance
        /\ max_tokens' <= call[c].affordable /\ learned' = call[c].affordable
    <3>1. call'[c].at = "loop" /\ UNCHANGED balance
      BY <1>2, <1>10 DEF ReduceCap
    <3>2. max_tokens' <= call[c].affordable
      BY <1>10, <2>1, <2>2, NewCap DEF ReduceCap
    <3>3. learned' = call[c].affordable
      BY <1>2, <1>10, <2>1, <2>2 DEF ReduceCap, AtMost
    <3> QED
      BY <3>1, <3>2, <3>3
  <2>4. max_tokens' \in Int
    BY NextType, TokensAssumption DEF TypeOK
  <2>5. learned' >= max_tokens' /\ balance' >= max_tokens'
    BY <2>1, <2>2, <2>3, <2>4
  <2> QED
    BY <2>3, <2>5 DEF CapKnows, Learning
<1>11. CASE Wait(c)
  <2>1. /\ call'[c].at = "asleep" /\ call'[c].credit_attempt = call[c].credit_attempt
        /\ call'[c].answer = call[c].answer
        /\ call[c].at = "answered" /\ WorthWaiting(c)
        /\ UNCHANGED <<max_tokens, balance>>
    BY <1>2, <1>11 DEF Wait, CallState
  <2>2. CASE call[c].answer = "shortfall"
    <3>1. call[c].credit_attempt = 0 /\ ~Recoverable(c)
      BY <1>6, <2>1, <2>2 DEF Learning, WorthWaiting
    <3>2. balance < MIN_VIABLE_TOKENS \/ MAX_CREDIT_SHORTFALL_RETRIES = 0
      BY <1>5, <1>6, <2>1, <2>2, <3>1, NothingToLearn
    <3> QED
      BY <2>1, <3>1, <3>2 DEF CapKnows, Learning
  <2>3. CASE call[c].answer \in {"busy", "rate_limited"}
    <3>1. UNCHANGED learned
      BY <1>11, <2>3 DEF Wait, Hears
    <3> QED
      BY <1>5, <1>6, <2>1, <2>3, <3>1 DEF CapKnows, Learning
  <2> QED
    BY <2>1, <2>2, <2>3 DEF WorthWaiting
<1>12. CASE Wake(c)
  <2>1. /\ call'[c].at = "loop" /\ call'[c].credit_attempt = call[c].credit_attempt
        /\ call[c].at = "asleep" /\ UNCHANGED <<max_tokens, balance, learned>>
    BY <1>2, <1>12 DEF Wake, CallState
  <2> QED
    BY <1>5, <1>6, <2>1 DEF CapKnows, Learning
<1>13. CASE Leave(c)
  <2>1. /\ call'[c].at = "idle" /\ call'[c].credit_attempt = 0
        /\ call[c].at = "answered" /\ UNCHANGED <<max_tokens, balance>>
    BY <1>2, <1>13 DEF Leave, Idle
  <2>2. CASE call[c].answer = "shortfall"
    <3>1. balance < MIN_VIABLE_TOKENS \/ MAX_CREDIT_SHORTFALL_RETRIES = 0
      BY <1>5, <1>6, <1>13, <2>1, <2>2, NothingToLearn DEF Leave
    <3> QED
      BY <2>1, <3>1 DEF CapKnows, Learning
  <2>3. CASE call[c].answer # "shortfall"
    <3>1. UNCHANGED learned
      BY <1>13, <2>3 DEF Leave, Hears
    <3> QED
      BY <1>5, <2>1, <3>1 DEF CapKnows, Learning
  <2> QED
    BY <2>2, <2>3
<1> QED
  BY <1>7, <1>8, <1>9, <1>10, <1>11, <1>12, <1>13 DEF Step

\* A refused request asked for more than it was told the account can afford.
Refused == \A c \in Callers :
  call[c].at = "answered" /\ call[c].answer = "shortfall" => call[c].affordable < call[c].asked

LEMMA NextRefused == TypeOK /\ Refused /\ [Next]_vars => Refused'
<1> SUFFICES ASSUME TypeOK, Refused, [Next]_vars, NEW c \in Callers,
                    call'[c].at = "answered", call'[c].answer = "shortfall"
             PROVE  call'[c].affordable < call'[c].asked
  BY DEF Refused
<1>1. call \in [Callers -> CallState] /\ call[c] \in CallState
  BY DEF TypeOK
<1>2. CASE call'[c] = call[c]
  BY <1>2 DEF Refused
<1>3. CASE call'[c] # call[c]
  <2>1. PICK d \in Callers : Enter(d) \/ Step(d)
    BY <1>3 DEF Next, vars
  <2>2. d = c
    <3>1. CASE Serve(d)
      BY <1>1, <1>3, <3>1 DEF Serve
    <3>2. CASE ~Serve(d)
      BY <1>1, <1>3, <2>1, <3>2 DEF Enter, Step, Post, ReduceCap, Wait, Wake, Leave
    <3> QED
      BY <3>1, <3>2
  <2>3. Serve(c)
    <3>1. Post(c) => call'[c].at = "sent"
      BY <1>1 DEF Post, CallState
    <3>2. Wait(c) => call'[c].at = "asleep"
      BY <1>1 DEF Wait, CallState
    <3>3. ReduceCap(c) \/ Wake(c) => call'[c].at = "loop"
      BY <1>1 DEF ReduceCap, Wake, CallState
    <3>4. Enter(c) \/ Leave(c) => call'[c].at \in {"idle", "loop"}
      BY <1>1 DEF Enter, Leave, Idle
    <3> QED
      BY <2>1, <2>2, <3>1, <3>2, <3>3, <3>4 DEF Step
  <2>4. /\ balance < call[c].asked
        /\ call'[c].affordable = balance /\ call'[c].asked = call[c].asked
    BY <1>1, <2>3 DEF Serve, CallState
  <2> QED
    BY <2>4
<1> QED
  BY <1>2, <1>3

LEMMA RisesAreStale ==
  ASSUME TypeOK, Refused, Next, max_tokens' > max_tokens
  PROVE  \E c \in Callers : /\ call[c].at = "answered" /\ call[c].answer = "shortfall"
                            /\ max_tokens < call[c].asked
                            /\ max_tokens' < call[c].affordable
<1>1. max_tokens \in Int /\ max_tokens >= MIN_VIABLE_TOKENS /\ MIN_VIABLE_TOKENS \in Int
  BY TokensAssumption DEF TypeOK
<1>2. PICK c \in Callers : ReduceCap(c)
  BY <1>1 DEF Next, Enter, Step, Post, Serve, Wait, Wake, Leave
<1>3. /\ call[c].at = "answered" /\ call[c].answer = "shortfall"
      /\ max_tokens' = AtLeast(call[c].affordable - MARGIN, MIN_VIABLE_TOKENS)
  BY <1>2 DEF ReduceCap
<1>4. call[c].affordable \in Int /\ call[c].asked \in Int /\ MARGIN \in Nat \ {0}
  BY CallFields, TokensAssumption DEF TypeOK
<1>5. call[c].affordable < call[c].asked
  BY <1>3 DEF Refused
<1>6. max_tokens' = call[c].affordable - MARGIN
  BY <1>1, <1>3, <1>4 DEF AtLeast
<1> QED
  BY <1>1, <1>3, <1>4, <1>5, <1>6

\* With one thread in the client no answer teaches it the same thing twice and
\* nothing makes it ask for more again ("every single call would waste a
\* guaranteed-to-fail attempt", chat of OpenRouterClient); with any number, the
\* cap rises by nothing but a refusal it has fallen below since.
THEOREM CapOnlyLearns == Spec => CapLearns
<1>1. Init => TypeOK /\ SoleInv
  BY InitType, InitSole
<1>2. TypeOK /\ SoleInv /\ [Next]_vars => TypeOK' /\ SoleInv'
  BY NextType, NextSole
<1>3. TypeOK /\ SoleInv /\ SoleInv' /\ [Next]_vars
        => [Cardinality(users') <= 1 => max_tokens' <= max_tokens]_vars
  <2> SUFFICES ASSUME TypeOK, SoleInv, SoleInv', Next, Cardinality(users') <= 1
               PROVE  max_tokens' <= max_tokens
    OBVIOUS
  <2>1. max_tokens \in Int /\ users \subseteq users'
    BY TokensAssumption DEF TypeOK, Next, Enter, Step, Post, Serve, ReduceCap, Wait,
                            Wake, Leave
  <2>2. Sole
    BY <2>1, AtMostOne DEF SoleInv, Sole
  <2>3. CASE \E c \in Callers : ReduceCap(c)
    <3>1. PICK c \in Callers : ReduceCap(c)
      BY <2>3
    <3>2. call[c].affordable < max_tokens /\ call[c].affordable >= MIN_VIABLE_TOKENS
      BY <2>2, <3>1, RefusalIsNews DEF ReduceCap, Recoverable
    <3>3. call[c].affordable \in 0..MAX_TOKENS
      BY CallFields DEF TypeOK
    <3>4. max_tokens' <= call[c].affordable /\ max_tokens' \in Int
      BY <3>1, <3>2, <3>3, NewCap, TokensAssumption DEF ReduceCap
    <3> QED
      BY <2>1, <3>2, <3>3, <3>4
  <2>4. CASE UNCHANGED max_tokens
    BY <2>1, <2>4
  <2> QED
    BY <2>3, <2>4 DEF Next, Enter, Step, Post, Serve, Wait, Wake, Leave
<1>4. TypeOK /\ SoleInv /\ [Next]_vars
        => [\A c \in Callers :
              /\ Cardinality(users) <= 1
              /\ call[c].at = "answered" /\ call[c].answer = "shortfall"
              /\ call'[c].at = "loop"
              => call[c].affordable < learned]_vars
  <2> SUFFICES ASSUME TypeOK, SoleInv, Next, Cardinality(users) <= 1,
                      NEW c \in Callers, call[c].at = "answered",
                      call[c].answer = "shortfall", call'[c].at = "loop"
               PROVE  call[c].affordable < learned
    OBVIOUS
  <2>1. Sole
    BY AtMostOne DEF SoleInv, Sole
  <2>2. ReduceCap(c)
    <3>1. call \in [Callers -> CallState]
      BY DEF TypeOK
    <3>2. PICK d \in Callers : Enter(d) \/ Step(d)
      BY DEF Next
    <3>3. d = c
      BY <3>1, <3>2 DEF Enter, Step, Post, Serve, ReduceCap, Wait, Wake, Leave
    <3>4. Wait(c) => call'[c].at = "asleep"
      <4>1. call[c] \in CallState
        BY <3>1
      <4> QED
        BY <3>1, <4>1 DEF Wait, CallState
    <3> QED
      BY <3>1, <3>2, <3>3, <3>4 DEF Enter, Step, Post, Serve, Wake, Leave, Idle
  <2> QED
    BY <2>1, <2>2, RefusalIsNews DEF ReduceCap
<1>5. Init => Refused
  BY DEF Init, Idle, Refused
<1>6. TypeOK /\ Refused /\ [Next]_vars => Refused'
  BY NextRefused
<1>7. TypeOK /\ Refused /\ [Next]_vars
        => [max_tokens' > max_tokens =>
              \E c \in Callers : /\ call[c].at = "answered" /\ call[c].answer = "shortfall"
                                 /\ max_tokens < call[c].asked
                                 /\ max_tokens' < call[c].affordable]_vars
  BY RisesAreStale
<1> QED
  BY <1>1, <1>2, <1>3, <1>4, <1>5, <1>6, <1>7, PTL
     DEF Spec, CapLearns, SoleCeilingNeverRises, NeverRelearns, OnlyStaleRefusalsRaise

-----------------------------------------------------------------------------
(* How long a call can take.                                               *)

\* What is left of a call at most: a round of four steps (sleep, loop, send,
\* answer) for each retry it has, whichever budget it comes out of.
Rounds(x) ==
  (MAX_RETRIES - x.wait_attempt) + (MAX_CREDIT_SHORTFALL_RETRIES - x.credit_attempt)

StepsLeft(x) ==
  CASE x.at = "idle" -> 0
    [] x.at = "answered" -> 4 * Rounds(x) + 1
    [] x.at = "sent" -> 4 * Rounds(x) + 2
    [] x.at = "loop" -> 4 * Rounds(x) + 3
    [] x.at = "asleep" -> 4 * Rounds(x) + 4

LEMMA WhatIsLeft ==
  ASSUME NEW x \in CallState
  PROVE  Rounds(x) \in Nat /\ StepsLeft(x) \in Nat
<1>1. Rounds(x) \in Nat
  BY CallFields, RetriesAssumption DEF Rounds
<1>2. x.at \in {"idle", "loop", "sent", "answered", "asleep"}
  BY CallFields
<1>3. \E n \in {1, 2, 3, 4} : StepsLeft(x) \in {0, 4 * Rounds(x) + n}
  BY <1>2 DEF StepsLeft
<1> HIDE DEF StepsLeft
<1> QED
  BY <1>1, <1>3

LEMMA OwnStepsCount ==
  ASSUME call \in [Callers -> CallState], call' \in [Callers -> CallState],
         NEW c \in Callers, Step(c)
  PROVE  StepsLeft(call'[c]) < StepsLeft(call[c])
<1> DEFINE x == call[c]
           y == call'[c]
<1>1. /\ x \in CallState /\ y \in CallState
      /\ x.wait_attempt \in Nat /\ x.credit_attempt \in Nat
      /\ MAX_RETRIES \in Nat /\ MAX_CREDIT_SHORTFALL_RETRIES \in Nat
  BY CallFields, RetriesAssumption
<1>2. Rounds(x) \in Nat /\ Rounds(y) \in Nat
  BY <1>1, WhatIsLeft
<1>3. \A z \in {x, y} :
        /\ z.at = "idle" => StepsLeft(z) = 0
        /\ z.at = "answered" => StepsLeft(z) = 4 * Rounds(z) + 1
        /\ z.at = "sent" => StepsLeft(z) = 4 * Rounds(z) + 2
        /\ z.at = "loop" => StepsLeft(z) = 4 * Rounds(z) + 3
        /\ z.at = "asleep" => StepsLeft(z) = 4 * Rounds(z) + 4
  BY DEF StepsLeft
<1>4. CASE Post(c)
  <2>1. /\ x.at = "loop" /\ y.at = "sent"
        /\ y.wait_attempt = x.wait_attempt /\ y.credit_attempt = x.credit_attempt
    BY <1>1, <1>4 DEF Post, CallState
  <2> QED
    BY <1>2, <1>3, <2>1 DEF Rounds
<1>5. CASE Serve(c)
  <2>1. /\ x.at = "sent" /\ y.at = "answered"
        /\ y.wait_attempt = x.wait_attempt /\ y.credit_attempt = x.credit_attempt
    BY <1>1, <1>5 DEF Serve, CallState
  <2> QED
    BY <1>2, <1>3, <2>1 DEF Rounds
<1>6. CASE ReduceCap(c)
  <2>1. /\ x.at = "answered" /\ y.at = "loop"
        /\ y.wait_attempt = x.wait_attempt /\ y.credit_attempt = x.credit_attempt + 1
    BY <1>1, <1>6 DEF ReduceCap, CallState
  <2>2. Rounds(y) = Rounds(x) - 1
    BY <1>1, <2>1 DEF Rounds
  <2> QED
    BY <1>2, <1>3, <2>1, <2>2
<1>7. CASE Wait(c)
  <2>1. /\ x.at = "answered" /\ y.at = "asleep"
        /\ y.wait_attempt = x.wait_attempt + 1 /\ y.credit_attempt = x.credit_attempt
    BY <1>1, <1>7 DEF Wait, CallState
  <2>2. Rounds(y) = Rounds(x) - 1
    BY <1>1, <2>1 DEF Rounds
  <2> QED
    BY <1>2, <1>3, <2>1, <2>2
<1>8. CASE Wake(c)
  <2>1. /\ x.at = "asleep" /\ y.at = "loop"
        /\ y.wait_attempt = x.wait_attempt /\ y.credit_attempt = x.credit_attempt
    BY <1>1, <1>8 DEF Wake, CallState
  <2> QED
    BY <1>2, <1>3, <2>1 DEF Rounds
<1>9. CASE Leave(c)
  <2>1. x.at = "answered" /\ y.at = "idle"
    BY <1>1, <1>9 DEF Leave, Idle
  <2> QED
    BY <1>2, <1>3, <2>1
<1> QED
  BY <1>4, <1>5, <1>6, <1>7, <1>8, <1>9 DEF Step

\* Every step of a call brings its end nearer, whatever the service answers;
\* what other threads do to the shared cap gives no call a retry more (chat():
\* the two attempt counters).  So a call is over after at most
\* 3 + 4 * (MAX_RETRIES + MAX_CREDIT_SHORTFALL_RETRIES) steps of its own.
CallsAreBounded ==
  [][\A c \in Callers :
       call[c].at # "idle" =>
         /\ StepsLeft(call'[c]) \in Nat
         /\ StepsLeft(call'[c]) < StepsLeft(call[c]) \/ UNCHANGED call[c]]_vars

THEOREM EveryStepCounts == Spec => CallsAreBounded
<1>1. TypeOK /\ TypeOK' /\ [Next]_vars
        => [\A c \in Callers :
              call[c].at # "idle" =>
                /\ StepsLeft(call'[c]) \in Nat
                /\ StepsLeft(call'[c]) < StepsLeft(call[c]) \/ UNCHANGED call[c]]_vars
  <2> SUFFICES ASSUME TypeOK, TypeOK', Next, NEW c \in Callers, call[c].at # "idle"
               PROVE  /\ StepsLeft(call'[c]) \in Nat
                      /\ StepsLeft(call'[c]) < StepsLeft(call[c]) \/ UNCHANGED call[c]
    OBVIOUS
  <2>1. call \in [Callers -> CallState] /\ call' \in [Callers -> CallState]
    BY DEF TypeOK
  <2>2. StepsLeft(call'[c]) \in Nat
    BY <2>1, WhatIsLeft
  <2>3. PICK d \in Callers : Enter(d) \/ Step(d)
    BY DEF Next
  <2>4. CASE d = c
    <3>1. Step(c)
      BY <2>3, <2>4 DEF Enter
    <3> QED
      BY <2>1, <2>2, <3>1, OwnStepsCount
  <2>5. CASE d # c
    <3>1. call'[c] = call[c]
      <4>1. CASE Serve(d)
        BY <2>1, <2>5, <4>1 DEF Serve
      <4>2. CASE ~Serve(d)
        BY <2>1, <2>3, <2>5, <4>2 DEF Enter, Step, Post, ReduceCap, Wait, Wake, Leave
      <4> QED
        BY <4>1, <4>2
    <3> QED
      BY <2>2, <3>1
  <2> QED
    BY <2>2, <2>4, <2>5
<1>2. Spec => []TypeOK
  BY CapStaysViable
<1> QED
  BY <1>1, <1>2, PTL DEF Spec, CallsAreBounded
=============================================================================
