------------------------------- MODULE Browser -------------------------------
(***************************************************************************)
(* The stateful parts of one browser tab.  They share only the server, and *)
(* none reads the state of another, so each is explored on its own: focus  *)
(* says which.  The others rest in one of their initial states.             *)
(***************************************************************************)
EXTENDS RunsPolling, RunPage, ApiKeyState

VARIABLE focus

vars == <<server, polling, page, keys, focus>>

\* The server as it is when nobody looks at the runs.
Quiet == phase = [r \in Runs |-> "absent"]

Init == /\ focus \in {"polling", "page", "keys"}
        /\ ServerInit /\ PollingInit /\ PageInit /\ KeyInit
        /\ focus = "polling" => \A r \in Runs \ Watched : phase[r] = "absent"
        /\ focus # "page" => visits = <<Visit(CHOOSE r \in Runs : TRUE)>>
        /\ focus # "keys" => configured = {} /\ storage
        /\ focus = "keys" => Quiet

Polls(A) == focus = "polling" /\ A /\ UNCHANGED <<page, keys, focus>>
Shows(A) == focus = "page" /\ A /\ UNCHANGED <<polling, keys, focus>>
Holds(A) == focus = "keys" /\ A /\ UNCHANGED <<server, polling, page, focus>>

Next == Polls(PollingNext) \/ Shows(PageNext) \/ Holds(KeyNext)

ApplyOne == \E i \in DOMAIN answers : Apply(i)
EndAwait == \E v \in DOMAIN visits : Returns(v) \/ Raises(v)

\* The interval fires for ever, and of polls and answers that keep coming not all
\* are lost.  Every request of the page ends, with an answer or not.
Fairness ==
  /\ WF_vars(Polls(Poll)) /\ SF_vars(Polls(List)) /\ SF_vars(Polls(ApplyOne))
  /\ WF_vars(Shows(EndAwait))

Spec == Init /\ [][Next]_vars /\ Fairness

\* VisitsSettle of RunPage: who stays on a run that ends for good gets its
\* results or is told why not.
PageSettles == focus = "page" => VisitsSettle
=============================================================================
