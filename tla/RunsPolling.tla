----------------------------- MODULE RunsPolling -----------------------------
(***************************************************************************)
(* The poll for the list of runs and the notifications it raises:          *)
(* RunsProvider of frontend/src/context/RunsContext.tsx and                *)
(* computeTransitions of lib/runTransitions.ts.  The timer does not wait   *)
(* for an answer, so polls overlap and answers overtake each other.        *)
(***************************************************************************)
EXTENDS ServedRuns, SequencesExt

CONSTANTS Watched,        \* the runs that change while the page polls
          MaxPolls,       \* bound: polls in flight
          MaxCount        \* saturates the two counters

ASSUME PollingAssumption == Watched \subseteq Runs /\ MaxCount \in Nat

VARIABLES asked,          \* polls the server has not handled yet
          answers,        \* answers in flight, in the order of handling
          previous,       \* previousStatuses: the statuses of the last answer applied
          told,           \* notifications raised per run
          ran,            \* history: runs that were running since the page was opened
          endings,        \* history: how often a run went from running to an end
          overtaken       \* history: an answer was applied after a newer one

polling == <<asked, answers, previous, told, ran, endings, overtaken>>

Count(n) == IF n < MaxCount THEN n + 1 ELSE n

PollingInit ==
  /\ asked = 1 /\ answers = <<>>
  /\ previous = <<>>
  /\ told = [r \in Runs |-> 0]
  /\ ran = {r \in Runs : phase[r] = "running"}
  /\ endings = [r \in Runs |-> 0]
  /\ overtaken = FALSE

\* The server moves on; what it did is remembered.
Observe ==
  /\ \E r \in Watched : ServerStep(r)
  /\ ran' = ran \cup {r \in Runs : phase'[r] = "running"}
  /\ endings' = [r \in Runs |-> IF phase[r] = "running" /\ phase'[r] \in Terminal
                                THEN Count(endings[r]) ELSE endings[r]]
  /\ UNCHANGED <<asked, answers, previous, told, overtaken>>

\* The interval fires.
Poll == /\ asked + Len(answers) < MaxPolls
        /\ asked' = asked + 1
        /\ UNCHANGED <<server, answers, previous, told, ran, endings, overtaken>>

\* list_jobs: the runs that exist, with their statuses.
Listed == [r \in {x \in Runs : phase[x] # "absent"} |-> phase[r]]

\* get_runs
List == /\ asked > 0
        /\ asked' = asked - 1
        /\ answers' = Append(answers, [runs |-> Listed, late |-> FALSE])
        /\ UNCHANGED <<server, previous, told, ran, endings, overtaken>>

\* Variant with a bug: every end that is news is a transition.
TransitionsOfNews(before, runs) ==
  {r \in DOMAIN runs : ~(r \in DOMAIN before /\ before[r] = runs[r]) /\ runs[r] \in Terminal}

\* Variant with a bug: failures are left out.
TransitionsToCompleted(before, runs) ==
  {r \in DOMAIN runs : r \in DOMAIN before /\ before[r] = "running" /\ runs[r] = "completed"}

\* computeTransitions
Transitions(before, runs) ==
  {r \in DOMAIN runs : r \in DOMAIN before /\ before[r] = "running" /\ runs[r] \in Terminal}

\* Variant with a bug: what once was running is kept as running.
NextStatusesKeeping(before, runs) ==
  [r \in DOMAIN runs |-> IF r \in DOMAIN before /\ before[r] = "running" THEN "running" ELSE runs[r]]

\* The answer replaces the statuses.
NextStatuses(before, runs) == runs

Apply(i) ==
  /\ i \in DOMAIN answers
  /\ told' = [r \in Runs |-> IF r \in Transitions(previous, answers[i].runs) THEN Count(told[r]) ELSE told[r]]
  /\ previous' = NextStatuses(previous, answers[i].runs)
  /\ overtaken' = (overtaken \/ answers[i].late)
  /\ answers' = RemoveAt([k \in DOMAIN answers |-> [answers[k] EXCEPT !.late = @ \/ k < i]], i)
  /\ UNCHANGED <<server, asked, ran, endings>>

\* The request or its answer is lost, or the server answers with an error: the
\* catch does nothing.
PollFails == /\ \/ asked > 0 /\ asked' = asked - 1 /\ UNCHANGED answers
                \/ \E i \in DOMAIN answers : answers' = RemoveAt(answers, i) /\ UNCHANGED asked
             /\ UNCHANGED <<server, previous, told, ran, endings, overtaken>>

PollingNext == Observe \/ Poll \/ List \/ (\E i \in DOMAIN answers : Apply(i)) \/ PollFails

-----------------------------------------------------------------------------
(* Properties                                                              *)

\* "A run already finished when the page loads must never notify": whatever is
\* overtaken or lost, a notification is about a run that was running since.
NotifiedRunsRan == \A r \in Runs : told[r] > 0 => r \in ran

\* One notification per end, however many polls see it, as long as no answer
\* was overtaken by a newer one.  (With overlapping polls it can come twice.)
InOrderNotifiesOnce == ~overtaken => \A r \in Runs : told[r] <= endings[r]

\* A run the page has shown as running and that ends for good is notified,
\* although polls fail and skip states, unless an answer was overtaken.
EndsAreNotified ==
  \A r \in Watched :
    [](r \in DOMAIN previous /\ previous[r] = "running" /\ [](phase[r] \in Terminal)
         => <>(told[r] > 0 \/ overtaken))
=============================================================================
