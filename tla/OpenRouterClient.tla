-------------------------- MODULE OpenRouterClient --------------------------
(***************************************************************************)
(* OpenRouterClient.chat of agent/llm_client.py: the retry loop, and the   *)
(* cap on completion tokens that the threads sharing the client learn from *)
(* refusals.  The service keeps a balance; its answers take time.          *)
(*                                                                         *)
(* Tokens come in units and the cap keeps MARGIN below what the service    *)
(* says it can afford (10 tokens in the code).  The body of a response is  *)
(* nothing but its kind here.                                              *)
(***************************************************************************)
EXTENDS Integers, FiniteSets

CONSTANTS
  Callers,
  MAX_TOKENS,
  MIN_VIABLE_TOKENS,
  MARGIN,
  MAX_RETRIES,
  MAX_CREDIT_SHORTFALL_RETRIES

ASSUME TokensAssumption ==
  /\ MAX_TOKENS \in Nat
  /\ MIN_VIABLE_TOKENS \in 0..MAX_TOKENS
  /\ MARGIN \in Nat \ {0}
ASSUME RetriesAssumption ==
  MAX_RETRIES \in Nat /\ MAX_CREDIT_SHORTFALL_RETRIES \in Nat

VARIABLES
  max_tokens,  \* the sticky cap, shared
  balance,     \* what the account can afford; it never goes up
  call,        \* call[c]: the state of c's chat()
  \* history, read by no action
  learned,     \* the least affordable amount a refusal has named
  users        \* the threads that have made calls

vars == <<max_tokens, balance, call, learned, users>>

\* at: "idle", "loop" (before a request), "sent", "answered", "asleep".
\* asked: max_tokens in the payload; answer and affordable: the response.
CallState ==
  [at : {"idle", "loop", "sent", "answered", "asleep"},
   wait_attempt : 0..MAX_RETRIES,
   credit_attempt : 0..MAX_CREDIT_SHORTFALL_RETRIES,
   asked : 0..MAX_TOKENS,
   answer : {"none", "ok", "shortfall", "busy", "rate_limited", "bad_request", "error"},
   affordable : 0..MAX_TOKENS]

Idle == [at |-> "idle", wait_attempt |-> 0, credit_attempt |-> 0, asked |-> 0,
         answer |-> "none", affordable |-> 0]

AtLeast(x, y) == IF x >= y THEN x ELSE y
AtMost(x, y) == IF x <= y THEN x ELSE y

Init ==
  /\ max_tokens = MAX_TOKENS
  /\ balance \in 0..MAX_TOKENS
  /\ call = [c \in Callers |-> Idle]
  /\ learned = MAX_TOKENS + 1
  /\ users = {}

-----------------------------------------------------------------------------
\* Variant with a bug: every call starts with the full cap again.
EnterForgetting(c) ==
  /\ call[c].at = "idle"
  /\ call' = [call EXCEPT ![c] = [Idle EXCEPT !.at = "loop"]]
  /\ users' = users \cup {c}
  /\ max_tokens' = MAX_TOKENS
  /\ UNCHANGED <<balance, learned>>

Enter(c) ==
  /\ call[c].at = "idle"
  /\ call' = [call EXCEPT ![c] = [Idle EXCEPT !.at = "loop"]]
  /\ users' = users \cup {c}
  /\ UNCHANGED <<max_tokens, balance, learned>>

\* One turn of the loop sends the cap as it is now.
Post(c) ==
  /\ call[c].at = "loop"
  /\ call' = [call EXCEPT ![c].at = "sent", ![c].asked = max_tokens,
                          ![c].answer = "none", ![c].affordable = 0]
  /\ UNCHANGED <<max_tokens, balance, learned, users>>

\* The service answers, or the request times out: it refuses what the account
\* cannot afford and names what it can; it serves the rest unless it is busy,
\* limits the rate, rejects a tool call or breaks.
Serve(c) ==
  /\ call[c].at = "sent"
  /\ \/ /\ balance < call[c].asked
        /\ call' = [call EXCEPT ![c].at = "answered", ![c].answer = "shortfall",
                                ![c].affordable = balance]
        /\ UNCHANGED balance
     \/ /\ balance >= call[c].asked
        /\ \E answer \in {"ok", "bad_request", "error"} :
             call' = [call EXCEPT ![c].at = "answered", ![c].answer = answer]
        /\ balance' \in {balance, AtLeast(balance - 1, 0)}
     \/ /\ \E answer \in {"busy", "rate_limited", "error"} :
             call' = [call EXCEPT ![c].at = "answered", ![c].answer = answer]
        /\ UNCHANGED balance
  /\ UNCHANGED <<max_tokens, learned, users>>

-----------------------------------------------------------------------------
(* What chat() makes of the answer.                                        *)

Recoverable(c) ==
  /\ call[c].affordable >= MIN_VIABLE_TOKENS
  /\ call[c].credit_attempt < MAX_CREDIT_SHORTFALL_RETRIES

\* Variant with a bug: the margin is taken off whatever is left, however little.
ReduceCapUnfloored(c) ==
  /\ call[c].at = "answered" /\ call[c].answer = "shortfall"
  /\ Recoverable(c)
  /\ max_tokens' = call[c].affordable - MARGIN
  /\ learned' = AtMost(learned, call[c].affordable)
  /\ call' = [call EXCEPT ![c].at = "loop", ![c].credit_attempt = @ + 1]
  /\ UNCHANGED <<balance, users>>

\* A shortfall the cap can adapt to: retry at once.
ReduceCap(c) ==
  /\ call[c].at = "answered" /\ call[c].answer = "shortfall"
  /\ Recoverable(c)
  /\ max_tokens' = AtLeast(call[c].affordable - MARGIN, MIN_VIABLE_TOKENS)
  /\ learned' = AtMost(learned, call[c].affordable)
  /\ call' = [call EXCEPT ![c].at = "loop", ![c].credit_attempt = @ + 1]
  /\ UNCHANGED <<balance, users>>

\* What a refusal names, also one that nothing is made of.
Hears(c) == learned' = IF call[c].answer = "shortfall"
                       THEN AtMost(learned, call[c].affordable) ELSE learned

\* A busy service (402 with Retry-After) or a rate limit (429); a shortfall the
\* cap cannot adapt to is waited for too, if it comes with a Retry-After.
WorthWaiting(c) ==
  \/ call[c].answer \in {"busy", "rate_limited"}
  \/ call[c].answer = "shortfall" /\ ~Recoverable(c)

\* Variant with a bug: the wait is not counted.
WaitUncounted(c) ==
  /\ call[c].at = "answered" /\ WorthWaiting(c)
  /\ call[c].wait_attempt < MAX_RETRIES
  /\ call' = [call EXCEPT ![c].at = "asleep"]
  /\ Hears(c)
  /\ UNCHANGED <<max_tokens, balance, users>>

\* Sleep first.
Wait(c) ==
  /\ call[c].at = "answered" /\ WorthWaiting(c)
  /\ call[c].wait_attempt < MAX_RETRIES
  /\ call' = [call EXCEPT ![c].at = "asleep", ![c].wait_attempt = @ + 1]
  /\ Hears(c)
  /\ UNCHANGED <<max_tokens, balance, users>>

Wake(c) ==
  /\ call[c].at = "asleep"
  /\ call' = [call EXCEPT ![c].at = "loop"]
  /\ UNCHANGED <<max_tokens, balance, learned, users>>

\* chat() is over: it returns the message, a recovered tool call, or raises.
Leave(c) ==
  /\ call[c].at = "answered"
  /\ \/ call[c].answer \in {"ok", "bad_request", "error"}
     \/ call[c].answer \in {"busy", "rate_limited"} /\ call[c].wait_attempt = MAX_RETRIES
     \/ call[c].answer = "shortfall" /\ ~Recoverable(c)
  /\ call' = [call EXCEPT ![c] = Idle]
  /\ Hears(c)
  /\ UNCHANGED <<max_tokens, balance, users>>

Step(c) == Post(c) \/ Serve(c) \/ ReduceCap(c) \/ Wait(c) \/ Wake(c) \/ Leave(c)

Next == \E c \in Callers : Enter(c) \/ Step(c)

Spec == Init /\ [][Next]_vars

\* Requests have a timeout and sleeps end, so a call that has begun goes on.
FairSpec == Spec /\ \A c \in Callers : WF_vars(Step(c))

-----------------------------------------------------------------------------
\* The cap stays within the viable range: no request asks for less than a
\* tool call needs, nor for more than the program ever wants.
TypeOK ==
  /\ max_tokens \in MIN_VIABLE_TOKENS..MAX_TOKENS
  /\ balance \in 0..MAX_TOKENS
  /\ call \in [Callers -> CallState]
  /\ learned \in 0..(MAX_TOKENS + 1)
  /\ users \subseteq Callers

\* As long as one thread only uses the client, the cap never rises again,
\* whatever calls succeed, wait or fail in between.
SoleCeilingNeverRises ==
  [][Cardinality(users') <= 1 => max_tokens' <= max_tokens]_vars

\* "Every single call would waste a guaranteed-to-fail attempt": with one
\* thread, a refusal always says something new, a balance lower than any named
\* before, until too little is left.
NeverRelearns ==
  [][\A c \in Callers :
       /\ Cardinality(users) <= 1
       /\ call[c].at = "answered" /\ call[c].answer = "shortfall"
       /\ call'[c].at = "loop"
       => call[c].affordable < learned]_vars

\* Refusals reach the cap in any order, and one that comes late can undo what a
\* later one has taught; nothing else can.  It answered a request that asked for
\* more than the cap has come down to since, and the cap rises to less than it
\* said the account could afford (the cap is read when the payload is made and
\* written after the answer, without a lock).
OnlyStaleRefusalsRaise ==
  [][max_tokens' > max_tokens =>
       \E c \in Callers : /\ call[c].at = "answered" /\ call[c].answer = "shortfall"
                          /\ max_tokens < call[c].asked
                          /\ max_tokens' < call[c].affordable]_vars

\* A single user of the client only ever learns: the cap never rises, and no
\* refusal that lowers it says what an earlier one has said.  With several, only
\* what is stale raises it.
CapLearns == SoleCeilingNeverRises /\ NeverRelearns /\ OnlyStaleRefusalsRaise

\* Every call comes to an end, whatever the service answers and whatever the
\* other threads do to the cap.
EveryCallEnds == \A c \in Callers : call[c].at # "idle" ~> call[c].at = "idle"
=============================================================================
