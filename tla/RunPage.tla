------------------------------- MODULE RunPage -------------------------------
(***************************************************************************)
(* The page of one run: the effect of frontend/src/pages/RunDetail.tsx and *)
(* streamRun of api/client.ts.  Going from one run to another keeps the    *)
(* component and starts the effect again; the earlier effect ("visit")     *)
(* lives on until its last await returns.  Leaving for another page makes  *)
(* a new component, on which no earlier visit has an effect.               *)
(***************************************************************************)
EXTENDS ServedRuns, SequencesExt

CONSTANT MaxVisits        \* bound: visits in one component's life

VARIABLES visits,         \* the effects, the last one being the current
          shown,          \* the component's state
          leftWaiting     \* history: runs left while their results were awaited

page == <<visits, shown, leftWaiting>>

NoStatus == [of |-> "none", is |-> "none"]

Blank == [status |-> NoStatus, events |-> <<>>, results |-> "none", runError |-> FALSE, error |-> FALSE]

Visit(r) == [run |-> r, at |-> "status", got |-> 0]

PageInit == /\ \E r \in Runs : visits = <<Visit(r)>>
            /\ shown = Blank
            /\ leftWaiting = {}

Current == Last(visits)

Cancelled(v) == v # Len(visits)

MoveTo(v, place) == visits' = [visits EXCEPT ![v].at = place]

\* Variant with a bug: the feed of the run before is left.
ResetKeepsEvents == [Blank EXCEPT !.events = shown.events]

Reset == Blank

\* abort: the read that is pending raises, and the catch finds the visit cancelled.
Aborted(at) == IF at = "stream" THEN "over" ELSE at

\* The cleanup cancels the visit and aborts its stream, if it has one; the
\* effect of the new run resets the state and asks for the status.
Navigate(r) ==
  /\ Len(visits) < MaxVisits /\ r # Current.run
  /\ visits' = Append([visits EXCEPT ![Len(visits)].at = Aborted(@)], Visit(r))
  /\ shown' = Reset
  /\ leftWaiting' = leftWaiting \cup (IF Current.at = "results" THEN {Current.run} ELSE {})
  /\ UNCHANGED server

\* What a status means to the effect.
AfterStatus(r) == IF phase[r] = "completed" THEN "results" ELSE IF phase[r] = "failed" THEN "over" ELSE "stream"

StatusOf(r) == [of |-> r, is |-> phase[r]]

StatusAnswered(v) ==
  LET r == visits[v].run IN
  /\ visits[v].at = "status"
  /\ phase[r] # "absent"
  /\ IF Cancelled(v) THEN MoveTo(v, "over") /\ UNCHANGED shown
     ELSE /\ shown' = [shown EXCEPT !.status = StatusOf(r), !.runError = phase[r] = "failed"]
          /\ MoveTo(v, AfterStatus(r))
  /\ UNCHANGED <<server, leftWaiting>>

\* A message of the stream joins the feed: the events come numbered, and 'done'
\* is the one after the last of them.
Message(v) == [of |-> visits[v].run, nr |-> visits[v].got + 1]

Receive(v, place) == visits' = [visits EXCEPT ![v].got = @ + 1, ![v].at = place]

\* An event of the stream (EventStream: in order, each once).  The test of
\* cancelled in the loop finds nothing: a visit that was left has no stream.
StreamEvent(v) ==
  /\ visits[v].at = "stream" /\ visits[v].got < log[visits[v].run]
  /\ Receive(v, "stream")
  /\ shown' = [shown EXCEPT !.events = Append(@, Message(v))]
  /\ UNCHANGED <<server, leftWaiting>>

\* The 'done' event; the stream ends with it.
StreamDone(v) ==
  LET r == visits[v].run IN
  /\ visits[v].at = "stream" /\ visits[v].got = log[r] /\ phase[r] \in Terminal
  /\ shown' = [shown EXCEPT !.events = Append(@, Message(v)),
                            !.status = StatusOf(r), !.runError = phase[r] = "failed"]
  /\ Receive(v, AfterStatus(r))
  /\ UNCHANGED <<server, leftWaiting>>

\* The results are set without a look at cancelled.
ResultsAnswered(v) ==
  /\ visits[v].at = "results" /\ phase[visits[v].run] = "completed"
  /\ shown' = [shown EXCEPT !.results = visits[v].run]
  /\ MoveTo(v, "over")
  /\ UNCHANGED <<server, leftWaiting>>

\* Variant with a bug: the catch is silent, like the one of the poll.
RaisesSilently(v) ==
  /\ visits[v].at # "over"
  /\ MoveTo(v, "over")
  /\ UNCHANGED <<server, shown, leftWaiting>>

\* No connection, or an answer that is an error: an unknown run, or a run whose
\* results are refused because it was marked failed since.
Raises(v) ==
  /\ visits[v].at # "over"
  /\ shown' = IF Cancelled(v) THEN shown ELSE [shown EXCEPT !.error = TRUE]
  /\ MoveTo(v, "over")
  /\ UNCHANGED <<server, leftWaiting>>

Returns(v) == StatusAnswered(v) \/ StreamEvent(v) \/ StreamDone(v) \/ ResultsAnswered(v)

PageNext == \/ \E r \in Runs : ServerStep(r) /\ UNCHANGED page
            \/ \E r \in Runs : Navigate(r)
            \/ \E v \in DOMAIN visits : Returns(v) \/ Raises(v)

-----------------------------------------------------------------------------
(* Properties                                                              *)

\* The feed is a prefix of what the stream of the run in the address bar sends,
\* its log and then 'done': no event of
\* another run, none twice, none skipped, through any navigation ("a mix of two
\* different runs' transactions" is the bug the reset in the effect fixed).
FeedIsThisRunsLog ==
  \A i \in DOMAIN shown.events : shown.events[i] = [of |-> Current.run, nr |-> i]

\* The status and the error next to it are those of the run in the address bar.
StatusIsThisRuns == shown.status # NoStatus => shown.status.of = Current.run

\* The results are those of the run in the address bar, or of a run that was left
\* while they were awaited: only the awaits before them check cancelled.
ResultsAreThisRuns == shown.results \in {"none", Current.run} \cup leftWaiting

\* The page never shows one run's data under another run's address, whatever
\* answers are late when the user moves on.
PageShowsItsRun == FeedIsThisRunsLog /\ StatusIsThisRuns /\ ResultsAreThisRuns

\* Who stays on a run that ends for good gets its results or is told why not.
VisitsSettle ==
  \A v \in 1..MaxVisits :
    [](Len(visits) = v /\ [](phase[Current.run] \in Terminal \/ Len(visits) # v)
         => <>(Len(visits) # v \/ shown.results # "none" \/ shown.runError \/ shown.error))
=============================================================================
