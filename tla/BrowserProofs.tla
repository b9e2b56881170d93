---------------------------- MODULE BrowserProofs ----------------------------
(***************************************************************************)
(* Proofs about Browser, for any runs, keys, requests in flight, polls and *)
(* navigation: whose state the page of a run shows, which notifications    *)
(* are raised, and where an API key can still be found.                    *)
(***************************************************************************)
EXTENDS Browser, SequenceTheorems, TLAPS

-----------------------------------------------------------------------------
(* The API key                                                             *)

KeySteps == KeyNext \/ UNCHANGED keys

\* What another part of the tab does leaves the key's state alone.
LEMMA KeyPart == [Next]_vars => KeySteps
  BY DEF Next, Polls, Shows, Holds, vars, KeySteps

LEMMA SavedNext == SavedKeysWork /\ [Next]_vars => SavedKeysWork'
<1> SUFFICES ASSUME SavedKeysWork, KeySteps PROVE SavedKeysWork'
  BY KeyPart
<1> USE DEF SavedKeysWork
<1>1. CASE Reload \/ Remount \/ ClearApiKey
  BY <1>1 DEF Reload, Remount, ClearApiKey, Forget
<1>2. ASSUME NEW s \in Slots, NEW k \in Keys, Submit(s, k) PROVE SavedKeysWork'
  BY <1>2 DEF Submit, SetApiKey
<1>3. ASSUME NEW s \in Slots, NEW answer, ProbeEnds(s, answer), UNCHANGED configured
      PROVE  SavedKeysWork'
  BY <1>3 DEF ProbeEnds
<1>4. ASSUME NEW s \in Slots, SetEnds(s, Answer(s)), UNCHANGED configured PROVE SavedKeysWork'
  BY <1>4 DEF SetEnds, Answer
<1>5. ASSUME NEW s \in Slots, SetEnds(s, NoAnswer), UNCHANGED configured PROVE SavedKeysWork'
  BY <1>5 DEF SetEnds, NoAnswer
<1>6. CASE UNCHANGED keys
  BY <1>6 DEF keys
<1> QED  BY <1>1, <1>2, <1>3, <1>4, <1>5, <1>6 DEF KeySteps, KeyNext, Ends

\* ClearedStaysCleared is not inductive: since the key was cleared with no
\* request out, no answer is awaited that would bring one back.
ClearedInv ==
  /\ ~storage => session = "none"
  /\ cleared => /\ apiKey = "none" /\ session = "none"
                /\ \A s \in Slots : requests[s].kind # "set"

LEMMA ClearedNext == ClearedInv /\ [Next]_vars => ClearedInv'
<1> SUFFICES ASSUME ClearedInv, KeySteps PROVE ClearedInv'
  BY KeyPart
<1> USE DEF ClearedInv
<1>1. CASE Reload
  <2>1. \A s \in Slots : requests'[s].kind # "set"
    <3> TAKE s \in Slots
    <3>1. requests'[s] \in {[kind |-> "probe", key |-> session], Free}
      BY <1>1 DEF Reload, FirstProbe
    <3> QED  BY <3>1 DEF Free
  <2> QED  BY <1>1, <2>1 DEF Reload
<1>2. CASE Remount
  BY <1>2 DEF Remount
<1>3. CASE ClearApiKey
  <2>1. Out = {} => \A s \in Slots : requests[s].kind # "set"
    BY DEF Out, Free
  <2> QED  BY <1>3, <2>1 DEF ClearApiKey, Forget
<1>4. ASSUME NEW s \in Slots, NEW k \in Keys, Submit(s, k) PROVE ClearedInv'
  BY <1>4 DEF Submit, SetApiKey
<1>5. ASSUME NEW s \in Slots, NEW answer, ProbeEnds(s, answer), UNCHANGED <<storage, cleared>>
      PROVE  ClearedInv'
  BY <1>5 DEF ProbeEnds, Fill, Free
<1>6. ASSUME NEW s \in Slots, NEW answer, SetEnds(s, answer), UNCHANGED <<storage, cleared>>
      PROVE  ClearedInv'
  BY <1>6 DEF SetEnds, Fill, Free
<1>7. CASE UNCHANGED keys
  BY <1>7 DEF keys
<1> QED  BY <1>1, <1>2, <1>3, <1>4, <1>5, <1>6, <1>7 DEF KeySteps, KeyNext, Ends

\* The copy of the key that survives a reload is one the backend accepts, whatever
\* requests overlap and fail, and a key cleared with no request out is in no
\* header and in no reload again.
THEOREM StoredKeysStayGood == Spec => []StoredKeysAreGood
<1>1. Init => SavedKeysWork /\ ClearedInv
  BY DEF Init, KeyInit, SavedKeysWork, ClearedInv
<1>2. SavedKeysWork /\ ClearedInv => StoredKeysAreGood
  BY DEF ClearedInv, ClearedStaysCleared, StoredKeysAreGood
<1> QED  BY <1>1, <1>2, SavedNext, ClearedNext, PTL DEF Spec

\* What StatusMatchesKey rests on while no requests have overlapped: at most one
\* is out, it carries the key in memory, and the page does not claim to know more
\* than it does.
Asked == [kind : {"none", "probe", "set"}, key : Keys \cup {"none"}]

Prompts == {"needs-key", "invalid-key", "checking"}

OneRequest ==
  ~overlapped =>
    /\ \A s, t \in Out : s = t
    /\ \A s \in Out : requests[s].key = apiKey
    /\ \A s \in Out : \/ requests[s].kind = "probe" /\ status = "checking"
                      \/ requests[s].kind = "set" /\ status \in Prompts

StatusInv ==
  /\ requests \in [Slots -> Asked]
  /\ \A s \in Slots : requests[s].kind = "set" => requests[s].key # "none"
  /\ OneRequest
  /\ StatusMatchesKey

StatusKept == /\ requests' \in [Slots -> Asked]
              /\ \A s \in Slots : requests'[s].kind = "set" => requests'[s].key # "none"

\* No key is refused where keys are configured.
LEMMA NoKeyIsRefused ==
  /\ configured # {} => Authorized(configured, "none") = 401
  /\ configured = {} => \A k : Authorized(configured, k) = 200
  /\ \A k : Authorized(configured, k) \in {200, 401, 403}
  /\ Authorized(configured, "none") = 200 => configured = {}
  BY DEF Authorized

\* Once the only request has ended, none is out.
LEMMA LastEnds ==
  ASSUME StatusInv, NEW s \in Slots, Fill(s), requests[s].kind # "none"
  PROVE  /\ StatusKept
         /\ ~overlapped => Out' = {} /\ requests[s].key = apiKey
         /\ s \in Out
<1>1. s \in Out
  BY DEF Out, Free
<1>2. requests' \in [Slots -> Asked] /\ requests'[s] = Free
      /\ \A t \in Slots : t # s => requests'[t] = requests[t]
  BY DEF Fill, Free, Asked, StatusInv
<1>3. ASSUME ~overlapped PROVE Out' = {}
  <2>1. \A t \in Slots : t # s => requests[t] = Free
    BY <1>1, <1>3 DEF Out, StatusInv, OneRequest
  <2> QED  BY <1>2, <2>1 DEF Out
<1>4. ASSUME ~overlapped PROVE requests[s].key = apiKey
  BY <1>1, <1>4 DEF StatusInv, OneRequest
<1>5. StatusKept
  BY <1>2 DEF StatusKept, StatusInv, Free
<1> QED  BY <1>1, <1>3, <1>4, <1>5

LEMMA ReloadKeepsStatus == ASSUME Reload, session \in Keys \cup {"none"} PROVE StatusInv'
<1> DEFINE first == CHOOSE x \in Slots : TRUE
           probe == [kind |-> "probe", key |-> session]
<1>1. requests' = [s \in Slots |-> IF s = first THEN probe ELSE Free]
  BY DEF Reload, FirstProbe
<1>2. probe \in Asked /\ Free \in Asked /\ probe.kind = "probe" /\ probe.key = session
      /\ Free.kind = "none"
  BY DEF Asked, Free
<1>3. apiKey' = session /\ status' = "checking"
  BY DEF Reload
<1> HIDE DEF first, probe
<1>4. requests' \in [Slots -> Asked]
  BY <1>1, <1>2
<1>5. \A s \in Slots : requests'[s].kind # "set"
  BY <1>1, <1>2
<1>6. \A s \in Out' : s = first /\ requests'[s] = probe
  BY <1>1 DEF Out
<1>7. OneRequest'
  BY <1>2, <1>3, <1>6 DEF OneRequest
<1>8. StatusMatchesKey'
  BY <1>3 DEF StatusMatchesKey
<1> QED  BY <1>4, <1>5, <1>7, <1>8 DEF StatusInv

LEMMA SubmitKeepsStatus ==
  ASSUME StatusInv, NEW s \in Slots, NEW k \in Keys, Submit(s, k)
  PROVE  StatusInv'
<1> DEFINE sent == [kind |-> "set", key |-> k]
<1>1. /\ requests[s] = Free /\ requests' = [requests EXCEPT ![s] = sent]
      /\ apiKey' = k /\ status' = status /\ status \in Prompts
      /\ overlapped' = (overlapped \/ Out # {})
  BY DEF Submit, SetApiKey, Ask, Prompts
<1>2. sent \in Asked /\ sent.kind = "set" /\ sent.key = k /\ sent # Free /\ k # "none"
  BY KeysAssumption DEF Asked, Free
<1> HIDE DEF sent
<1>3. requests' \in [Slots -> Asked] /\ requests'[s] = sent
      /\ \A t \in Slots : t # s => requests'[t] = requests[t]
  BY <1>1, <1>2 DEF StatusInv
<1>4. s \in Out'
  BY <1>2, <1>3 DEF Out
<1>5. ~overlapped' => \A t \in Out' : t = s
  BY <1>1, <1>3 DEF Out
<1>6. OneRequest'
  BY <1>1, <1>2, <1>3, <1>4, <1>5 DEF OneRequest
<1>7. StatusMatchesKey'
  BY <1>4 DEF StatusMatchesKey
<1>8. \A t \in Slots : requests'[t].kind = "set" => requests'[t].key # "none"
  BY <1>2, <1>3 DEF StatusInv
<1> QED  BY <1>3, <1>6, <1>7, <1>8 DEF StatusInv

LEMMA ProbeKeepsStatus ==
  ASSUME StatusInv, NEW s \in Slots, NEW answer, ProbeEnds(s, answer),
         UNCHANGED <<configured, overlapped>>,
         \/ answer = Answer(s) /\ failed' = failed
         \/ answer = NoAnswer /\ failed' = TRUE
  PROVE  StatusInv'
<1>1. /\ StatusKept
      /\ ~overlapped => Out' = {} /\ requests[s].key = apiKey
  BY LastEnds DEF ProbeEnds
<1>2. OneRequest'
  BY <1>1 DEF OneRequest
<1>3. StatusMatchesKey'
  <2> SUFFICES ASSUME ~overlapped PROVE StatusMatchesKey'
    BY DEF StatusMatchesKey
  <2> DEFINE right == Authorized(configured, apiKey)
  <2>1. UNCHANGED apiKey /\ configured' = configured
    BY DEF ProbeEnds
  <2>2. CASE answer = Answer(s) /\ failed' = failed
    <3>1. answer = right
      BY <1>1, <2>2 DEF Answer
    <3>2. CASE right = 200
      <4>1. status' = IF apiKey # "none" THEN "authenticated" ELSE "no-auth-required"
        BY <3>1, <3>2 DEF ProbeEnds
      <4> QED  BY <2>1, <3>2, <4>1, NoKeyIsRefused DEF StatusMatchesKey
    <3>3. CASE right # 200
      <4>1. status' = "needs-key"
        BY <3>1, <3>3, NoKeyIsRefused DEF ProbeEnds
      <4> QED  BY <2>1, <3>3, <4>1 DEF StatusMatchesKey
    <3> QED  BY <3>2, <3>3
  <2>3. CASE answer = NoAnswer /\ failed' = TRUE
    <3>1. status' = "no-auth-required"
      BY <2>3 DEF ProbeEnds, NoAnswer
    <3> QED  BY <2>3, <3>1 DEF StatusMatchesKey
  <2> QED  BY <2>2, <2>3
<1> QED  BY <1>1, <1>2, <1>3 DEF StatusInv, StatusKept

LEMMA SetKeepsStatus ==
  ASSUME StatusInv, NEW s \in Slots, NEW answer, SetEnds(s, answer),
         UNCHANGED <<configured, overlapped>>,
         answer \in {Answer(s), NoAnswer}
  PROVE  StatusInv'
<1>1. /\ StatusKept
      /\ ~overlapped => Out' = {} /\ requests[s].key = apiKey
      /\ s \in Out
  BY LastEnds DEF SetEnds
<1>2. OneRequest'
  BY <1>1 DEF OneRequest
<1>3. StatusMatchesKey'
  <2> SUFFICES ASSUME ~overlapped PROVE StatusMatchesKey'
    BY DEF StatusMatchesKey
  <2>1. status \in Prompts /\ configured' = configured /\ apiKey # "none"
    BY <1>1 DEF StatusInv, OneRequest, SetEnds
  <2>2. CASE answer = 200
    <3>1. status' = "authenticated" /\ apiKey' = apiKey /\ Authorized(configured, apiKey) = 200
      BY <1>1, <2>2 DEF SetEnds, Answer, NoAnswer
    <3> QED  BY <2>1, <3>1 DEF StatusMatchesKey
  <2>3. CASE answer # 200
    <3>1. apiKey' = "none" /\ status' \in Prompts
      BY <2>1, <2>3 DEF SetEnds, Prompts
    <3>2. configured # {} => Authorized(configured, "none") # 200
      BY NoKeyIsRefused
    <3> QED  BY <2>1, <3>1, <3>2 DEF StatusMatchesKey, Prompts
  <2> QED  BY <2>2, <2>3
<1> QED  BY <1>1, <1>2, <1>3 DEF StatusInv, StatusKept

LEMMA ClearKeepsStatus == ASSUME StatusInv, ClearApiKey PROVE StatusInv'
<1>1. /\ status' = "needs-key" /\ apiKey' = "none" /\ UNCHANGED <<requests, configured>>
      /\ overlapped' = (overlapped \/ Out # {})
  BY DEF ClearApiKey, Forget
<1>2. Out' = Out
  BY <1>1 DEF Out
<1>3. OneRequest'
  BY <1>1, <1>2 DEF OneRequest
<1>4. StatusMatchesKey'
  BY <1>1, NoKeyIsRefused DEF StatusMatchesKey
<1> QED  BY <1>1, <1>3, <1>4 DEF StatusInv

\* What is kept for a reload is a key.
SessionType == session \in Keys \cup {"none"}

LEMMA StatusNext == SessionType /\ StatusInv /\ [Next]_vars => SessionType' /\ StatusInv'
<1> SUFFICES ASSUME SessionType, StatusInv, KeySteps PROVE SessionType' /\ StatusInv'
  BY KeyPart
<1>0. ASSUME UNCHANGED <<configured, apiKey, status, requests, overlapped, failed>>
      PROVE  StatusInv'
  <2>1. Out' = Out
    BY <1>0 DEF Out
  <2> QED  BY <1>0, <2>1 DEF StatusInv, OneRequest, StatusMatchesKey
<1>1. CASE Reload
  BY <1>1, ReloadKeepsStatus DEF Reload, SessionType
<1>2. CASE Remount
  BY <1>0, <1>2 DEF Remount, SessionType
<1>3. CASE ClearApiKey
  BY <1>3, ClearKeepsStatus DEF ClearApiKey, Forget, SessionType
<1>4. ASSUME NEW s \in Slots, NEW k \in Keys, Submit(s, k) PROVE SessionType' /\ StatusInv'
  BY <1>4, SubmitKeepsStatus DEF Submit, SetApiKey, SessionType
<1>5. ASSUME NEW s \in Slots, NEW answer, SetEnds(s, answer) PROVE SessionType'
  <2>1. requests[s].key \in Keys \cup {"none"}
    BY DEF StatusInv, Asked
  <2> QED  BY <1>5, <2>1 DEF SetEnds, SessionType
<1>6. ASSUME NEW s \in Slots, Ends(s) PROVE SessionType' /\ StatusInv'
  <2>1. UNCHANGED <<configured, overlapped>>
    BY <1>6 DEF Ends
  <2>2. ASSUME NEW answer, ProbeEnds(s, answer),
               \/ answer = Answer(s) /\ failed' = failed
               \/ answer = NoAnswer /\ failed' = TRUE
        PROVE  SessionType' /\ StatusInv'
    <3>1. SessionType'
      BY <2>2 DEF ProbeEnds, SessionType
    <3>2. StatusInv'
      BY <2>1, <2>2, ProbeKeepsStatus
    <3> QED  BY <3>1, <3>2
  <2>3. ASSUME NEW answer, SetEnds(s, answer), answer \in {Answer(s), NoAnswer}
        PROVE  SessionType' /\ StatusInv'
    BY <1>5, <2>1, <2>3, SetKeepsStatus
  <2> QED  BY <1>6, <2>2, <2>3 DEF Ends
<1>7. CASE UNCHANGED keys
  BY <1>0, <1>7 DEF keys, SessionType
<1> QED  BY <1>1, <1>2, <1>3, <1>4, <1>6, <1>7 DEF KeySteps, KeyNext

\* With no request out and none that overlapped, what the page shows is what the
\* backend would say: 'authenticated' means a key that is accepted, and a prompt
\* for a key means that the next request would be refused.
THEOREM StatusStaysTrue == Spec => []StatusMatchesKey
<1>1. Init => SessionType /\ StatusInv
  <2> SUFFICES ASSUME Init PROVE SessionType /\ StatusInv
    OBVIOUS
  <2> DEFINE first == CHOOSE x \in Slots : TRUE
             probe == [kind |-> "probe", key |-> "none"]
  <2>1. /\ requests = [s \in Slots |-> IF s = first THEN probe ELSE Free]
        /\ apiKey = "none" /\ status = "checking" /\ session = "none"
    BY DEF Init, KeyInit, FirstProbe
  <2>2. probe \in Asked /\ Free \in Asked /\ probe.kind = "probe" /\ probe.key = "none"
        /\ Free.kind = "none"
    BY DEF Asked, Free
  <2> HIDE DEF first, probe
  <2>3. requests \in [Slots -> Asked] /\ \A s \in Slots : requests[s].kind # "set"
    BY <2>1, <2>2
  <2>4. \A s \in Out : s = first /\ requests[s] = probe
    BY <2>1 DEF Out
  <2>5. OneRequest
    BY <2>1, <2>2, <2>4 DEF OneRequest
  <2>6. StatusMatchesKey
    BY <2>1 DEF StatusMatchesKey
  <2> QED  BY <2>1, <2>3, <2>5, <2>6 DEF StatusInv, SessionType
<1>2. StatusInv => StatusMatchesKey
  BY DEF StatusInv
<1> QED  BY <1>1, <1>2, StatusNext, PTL DEF Spec

-----------------------------------------------------------------------------
(* The page of a run                                                       *)

Phases == {"absent", "pending", "running", "completed", "failed"}

PhaseType == phase \in [Runs -> Phases]

LEMMA PhaseNext == PhaseType /\ [Next]_vars => PhaseType'
<1> SUFFICES ASSUME PhaseType, [Next]_vars PROVE PhaseType'
  OBVIOUS
<1> USE DEF PhaseType
<1>1. ASSUME NEW r \in Runs, ServerStep(r) PROVE PhaseType'
  BY <1>1 DEF ServerStep, Create, Start, Decide, Publish, Fail, Become, Phases
<1>2. ASSUME UNCHANGED phase PROVE PhaseType'
  BY <1>2
<1>3. CASE Polls(PollingNext)
  <2>1. CASE Observe
    BY <1>1, <2>1, PollingAssumption DEF Observe
  <2>2. CASE Poll \/ List \/ (\E i \in DOMAIN answers : Apply(i)) \/ PollFails
    BY <1>2, <2>2 DEF Poll, List, Apply, PollFails, server
  <2> QED  BY <1>3, <2>1, <2>2 DEF Polls, PollingNext
<1>4. CASE Shows(PageNext)
  <2>1. ASSUME NEW r \in Runs, ServerStep(r) PROVE PhaseType'
    BY <1>1, <2>1
  <2>2. ASSUME NEW r \in Runs, Navigate(r) PROVE PhaseType'
    BY <1>2, <2>2 DEF Navigate, server
  <2>3. ASSUME NEW v \in DOMAIN visits, Returns(v) \/ Raises(v) PROVE PhaseType'
    BY <1>2, <2>3 DEF Returns, StatusAnswered, StreamEvent, StreamDone, ResultsAnswered, Raises, server
  <2> QED  BY <1>4, <2>1, <2>2, <2>3 DEF Shows, PageNext
<1>5. CASE Holds(KeyNext) \/ UNCHANGED vars
  BY <1>2, <1>5 DEF Holds, vars, server
<1> QED  BY <1>3, <1>4, <1>5 DEF Next

LEMMA AlwaysPhaseType == Spec => []PhaseType
<1>1. Init => PhaseType
  BY DEF Init, ServerInit, PhaseType, Phases
<1> QED  BY <1>1, PhaseNext, PTL DEF Spec

PageSteps == PageNext \/ UNCHANGED page

LEMMA PagePart == [Next]_vars => PageSteps
  BY DEF Next, Polls, Shows, Holds, vars, PageSteps

Stages == {"status", "stream", "results", "over"}

Visits == [run : Runs, at : Stages, got : Nat]

Statuses == [of : Runs \cup {"none"}, is : Phases \cup {"none"}]

Pages == [status : Statuses, events : Seq([of : Runs, nr : Nat]), results : Runs \cup {"none"},
          runError : BOOLEAN, error : BOOLEAN]

LEMMA SetAt ==
  ASSUME NEW S, NEW s \in Seq(S), NEW i \in 1..Len(s), NEW e \in S
  PROVE  /\ [s EXCEPT ![i] = e] \in Seq(S) /\ Len([s EXCEPT ![i] = e]) = Len(s)
         /\ [s EXCEPT ![i] = e][i] = e
         /\ \A k \in 1..Len(s) : k # i => [s EXCEPT ![i] = e][k] = s[k]
  OBVIOUS

LEMMA AppendAt ==
  ASSUME NEW S, NEW s \in Seq(S), NEW e \in S
  PROVE  /\ Append(s, e) \in Seq(S) /\ Len(Append(s, e)) = Len(s) + 1
         /\ Append(s, e)[Len(s) + 1] = e
         /\ \A k \in 1..Len(s) : Append(s, e)[k] = s[k]
  OBVIOUS

\* What an update of the state shows, and what it leaves.
LEMMA ShowStatus ==
  ASSUME shown \in Pages, NEW st \in Statuses, NEW b \in BOOLEAN,
         shown' = [shown EXCEPT !.status = st, !.runError = b]
  PROVE  /\ shown' \in Pages /\ shown'.status = st
         /\ shown'.events = shown.events /\ shown'.results = shown.results
  BY DEF Pages

LEMMA ShowResults ==
  ASSUME shown \in Pages, NEW r \in Runs, shown' = [shown EXCEPT !.results = r]
  PROVE  /\ shown' \in Pages /\ shown'.results = r
         /\ shown'.status = shown.status /\ shown'.events = shown.events
  BY DEF Pages

LEMMA ShowError ==
  ASSUME shown \in Pages, shown' = [shown EXCEPT !.error = TRUE]
  PROVE  /\ shown' \in Pages /\ shown'.results = shown.results
         /\ shown'.status = shown.status /\ shown'.events = shown.events
  BY DEF Pages

\* A visit that is not the current one.
Left(visit, waiting) == visit.at # "stream" /\ (visit.at = "results" => visit.run \in waiting)

\* What is shown of a run is shown of this visit's.
ShowsVisit(visit, sh, waiting) ==
  /\ Len(sh.events) = visit.got
  /\ \A i \in 1..Len(sh.events) : sh.events[i] = [of |-> visit.run, nr |-> i]
  /\ sh.status # NoStatus => sh.status.of = visit.run
  /\ sh.results \in {"none", visit.run} \cup waiting

\* The page shows its last visit: only that visit has a stream, the feed is what
\* the stream has brought, and a visit that was left awaits results only if it
\* was left awaiting them.
PageOK(vs, sh, waiting) ==
  /\ vs \in Seq(Visits) /\ Len(vs) > 0
  /\ sh \in Pages
  /\ waiting \subseteq Runs
  /\ \A v \in 1..Len(vs) - 1 : Left(vs[v], waiting)
  /\ ShowsVisit(vs[Len(vs)], sh, waiting)

PageInv == PageOK(visits, shown, leftWaiting)

\* A visit goes on to another stage, and shows something of its own run.
LEMMA StageKeeps ==
  ASSUME PageInv, NEW v \in DOMAIN visits, NEW place \in Stages, MoveTo(v, place),
         place = "stream" => ~Cancelled(v),
         place = "results" => ~Cancelled(v),
         shown' \in Pages, shown'.events = shown.events,
         shown'.status = shown.status \/ (~Cancelled(v) /\ shown'.status.of = visits[v].run),
         shown'.results = shown.results \/ (visits[v].at = "results" /\ shown'.results = visits[v].run),
         UNCHANGED leftWaiting
  PROVE  PageInv'
<1> DEFINE n == Len(visits)
           moved == [visits[v] EXCEPT !.at = place]
<1>1. visits \in Seq(Visits) /\ v \in 1..n /\ n \in 1..n /\ visits[v] \in Visits /\ visits[n] \in Visits
  BY DEF PageInv, PageOK
<1>2. moved \in Visits /\ moved.run = visits[v].run /\ moved.got = visits[v].got /\ moved.at = place
  BY <1>1 DEF Visits
<1>3. visits' = [visits EXCEPT ![v] = moved]
  BY <1>1 DEF MoveTo
<1> HIDE DEF moved
<1>4. /\ visits' \in Seq(Visits) /\ Len(visits') = n /\ visits'[v] = moved
      /\ \A k \in 1..n : k # v => visits'[k] = visits[k]
  BY <1>1, <1>2, <1>3, SetAt
<1>5. visits'[n].run = visits[n].run /\ visits'[n].got = visits[n].got
  BY <1>1, <1>2, <1>4
<1>6. ASSUME NEW w \in 1..n - 1 PROVE Left(visits'[w], leftWaiting)
  <2>1. w \in 1..n /\ w # n /\ Left(visits[w], leftWaiting)
    BY <1>1 DEF PageInv, PageOK
  <2>2. CASE w = v
    BY <1>2, <1>4, <2>1, <2>2 DEF Left, Cancelled
  <2>3. CASE w # v
    BY <1>4, <2>1, <2>3
  <2> QED  BY <2>2, <2>3
<1>7. visits[v].at = "results" => v = n \/ visits[v].run \in leftWaiting
  BY <1>1 DEF PageInv, PageOK, Left
<1>8. ShowsVisit(visits[n], shown, leftWaiting)
  BY DEF PageInv, PageOK
<1>9. ShowsVisit(visits'[n], shown', leftWaiting)
  <2>1. shown'.status # NoStatus => shown'.status.of = visits'[n].run
    BY <1>5, <1>8 DEF ShowsVisit, Cancelled
  <2>2. shown'.results \in {"none", visits'[n].run} \cup leftWaiting
    BY <1>5, <1>7, <1>8 DEF ShowsVisit
  <2> QED  BY <1>5, <1>8, <2>1, <2>2 DEF ShowsVisit
<1>10. n > 0 /\ leftWaiting \subseteq Runs
  BY DEF PageInv, PageOK
<1> QED  BY <1>4, <1>6, <1>9, <1>10 DEF PageInv, PageOK

LEMMA NavigateKeeps ==
  ASSUME PageInv, NEW r \in Runs, Navigate(r)
  PROVE  PageInv'
<1> DEFINE n == Len(visits)
           last == [visits[n] EXCEPT !.at = Aborted(@)]
           left == [visits EXCEPT ![n] = last]
<1>1. visits \in Seq(Visits) /\ n \in Nat /\ n > 0 /\ n \in 1..n /\ visits[n] \in Visits
  BY DEF PageInv, PageOK
<1>2. last \in Visits /\ last.at = Aborted(visits[n].at) /\ last.run = visits[n].run
  BY <1>1 DEF Visits, Aborted, Stages
<1>3. Visit(r) \in Visits
  BY DEF Visits, Visit, Stages
<1>4. /\ visits' = Append(left, Visit(r)) /\ shown' = Blank
      /\ leftWaiting' = leftWaiting \cup (IF visits[n].at = "results" THEN {visits[n].run} ELSE {})
  BY <1>1 DEF Navigate, Reset, Current, Last
<1> HIDE DEF last
<1>5. /\ left \in Seq(Visits) /\ Len(left) = n /\ left[n] = last
      /\ \A k \in 1..n : k # n => left[k] = visits[k]
  BY <1>1, <1>2, SetAt
<1> HIDE DEF left
<1>6. /\ visits' \in Seq(Visits) /\ Len(visits') = n + 1 /\ visits'[n + 1] = Visit(r)
      /\ \A k \in 1..n : visits'[k] = left[k]
  BY <1>3, <1>4, <1>5, AppendAt
<1>7. ASSUME NEW w \in 1..n PROVE Left(visits'[w], leftWaiting')
  <2>1. CASE w = n
    BY <1>2, <1>4, <1>5, <1>6, <2>1 DEF Left, Aborted
  <2>2. CASE w # n
    <3>1. visits'[w] = visits[w] /\ Left(visits[w], leftWaiting)
      BY <1>1, <1>5, <1>6, <2>2 DEF PageInv, PageOK
    <3> QED  BY <1>4, <3>1 DEF Left
  <2> QED  BY <2>1, <2>2
<1>8. Blank \in Pages
  BY DEF Blank, NoStatus, Pages, Statuses
<1>9. ShowsVisit(Visit(r), Blank, leftWaiting')
  BY DEF ShowsVisit, Blank, Visit
<1>10. Len(visits') - 1 = n /\ Len(visits') > 0
  BY <1>1, <1>6
<1>11. leftWaiting' \subseteq Runs
  BY <1>1, <1>4 DEF PageInv, PageOK, Visits
<1> QED  BY <1>4, <1>6, <1>7, <1>8, <1>9, <1>10, <1>11 DEF PageInv, PageOK

LEMMA ReceivedType ==
  ASSUME NEW x \in Visits, NEW place \in Stages
  PROVE  /\ [x EXCEPT !.got = @ + 1, !.at = place] \in Visits
         /\ [x EXCEPT !.got = @ + 1, !.at = place].run = x.run
         /\ [x EXCEPT !.got = @ + 1, !.at = place].got = x.got + 1
<1> DEFINE more == [x EXCEPT !.got = @ + 1, !.at = place]
<1>1. x.run \in Runs /\ x.got \in Nat /\ x.got + 1 \in Nat
  BY DEF Visits
<1>2. more \in [run : Runs, at : Stages, got : Nat]
  BY <1>1 DEF Visits
<1>3. more.run = x.run
  BY DEF Visits
<1>4. more.got = x.got + 1
  BY <1>1 DEF Visits
<1> QED  BY <1>2, <1>3, <1>4 DEF Visits

\* A message of the stream joins the feed, and 'done' changes the status too.
LEMMA MessageKeeps ==
  ASSUME PageInv, NEW v \in DOMAIN visits, visits[v].at = "stream",
         NEW place \in Stages, Receive(v, place),
         NEW st \in Statuses, st = shown.status \/ st.of = visits[v].run,
         NEW b \in BOOLEAN,
         shown' = [shown EXCEPT !.events = Append(@, Message(v)), !.status = st, !.runError = b],
         UNCHANGED leftWaiting
  PROVE  PageInv'
<1> DEFINE n == Len(visits)
           more == [visits[n] EXCEPT !.got = @ + 1, !.at = place]
           event == Message(n)
           feed == Append(shown.events, event)
<1>1. visits \in Seq(Visits) /\ n \in Nat /\ n > 0 /\ n \in 1..n /\ visits[n] \in Visits
  BY DEF PageInv, PageOK
<1>2. v = n
  BY <1>1 DEF PageInv, PageOK, Left
<1>3. /\ visits' = [visits EXCEPT ![n] = more]
      /\ shown' = [shown EXCEPT !.events = feed, !.status = st, !.runError = b]
  BY <1>1, <1>2 DEF Receive
<1>4. /\ more \in Visits /\ more.run = visits[n].run /\ more.got = visits[n].got + 1
      /\ event \in [of : Runs, nr : Nat] /\ event = [of |-> more.run, nr |-> more.got]
  <2>1. visits[n].run \in Runs /\ visits[n].got \in Nat
    BY <1>1 DEF Visits
  <2>2. more \in Visits /\ more.run = visits[n].run /\ more.got = visits[n].got + 1
    BY <1>1, ReceivedType
  <2> HIDE DEF more
  <2>3. event = [of |-> more.run, nr |-> more.got]
    BY <2>2 DEF Message
  <2> QED  BY <2>1, <2>2, <2>3
<1>5. shown \in Pages /\ shown.events \in Seq([of : Runs, nr : Nat])
      /\ ShowsVisit(visits[n], shown, leftWaiting)
  BY DEF PageInv, PageOK, Pages
<1> HIDE DEF more, event
<1>6. /\ visits' \in Seq(Visits) /\ Len(visits') = n /\ visits'[n] = more
      /\ \A k \in 1..n : k # n => visits'[k] = visits[k]
  BY <1>1, <1>3, <1>4, SetAt
<1>7. /\ feed \in Seq([of : Runs, nr : Nat]) /\ Len(feed) = Len(shown.events) + 1
      /\ feed[Len(shown.events) + 1] = event
      /\ \A k \in 1..Len(shown.events) : feed[k] = shown.events[k]
  BY <1>4, <1>5, AppendAt
<1> HIDE DEF feed
<1>8. /\ shown' \in Pages /\ shown'.events = feed
      /\ shown'.status = st /\ shown'.results = shown.results
  BY <1>3, <1>5, <1>7 DEF Pages
<1>9. Len(feed) = more.got /\ Len(shown.events) \in Nat
  BY <1>4, <1>5, <1>7 DEF ShowsVisit
<1>10. \A i \in 1..Len(feed) : feed[i] = [of |-> more.run, nr |-> i]
  <2> SUFFICES ASSUME NEW i \in 1..Len(feed) PROVE feed[i] = [of |-> more.run, nr |-> i]
    OBVIOUS
  <2>1. i \in 1..Len(shown.events) \/ i = Len(shown.events) + 1
    BY <1>7, <1>9
  <2> QED  BY <1>4, <1>5, <1>7, <1>9, <2>1 DEF ShowsVisit
<1>11. ShowsVisit(more, shown', leftWaiting)
  BY <1>2, <1>4, <1>5, <1>8, <1>9, <1>10 DEF ShowsVisit
<1>12. \A w \in 1..n - 1 : Left(visits'[w], leftWaiting)
  BY <1>1, <1>6 DEF PageInv, PageOK
<1>13. leftWaiting \subseteq Runs
  BY DEF PageInv, PageOK
<1> QED  BY <1>1, <1>3, <1>6, <1>8, <1>11, <1>12, <1>13 DEF PageInv, PageOK

LEMMA PageNextKeeps == PhaseType /\ PageInv /\ [Next]_vars => PageInv'
<1> SUFFICES ASSUME PhaseType, PageInv, PageSteps PROVE PageInv'
  BY PagePart
<1>0. ASSUME UNCHANGED page PROVE PageInv'
  BY <1>0 DEF page, PageInv
<1>1. ASSUME NEW r \in Runs, Navigate(r) PROVE PageInv'
  BY <1>1, NavigateKeeps
<1>2. shown \in Pages /\ visits \in Seq(Visits)
  BY DEF PageInv, PageOK
<1>3. ASSUME NEW v \in DOMAIN visits
      PROVE  /\ visits[v].run \in Runs
             /\ StatusOf(visits[v].run) \in Statuses /\ StatusOf(visits[v].run).of = visits[v].run
             /\ AfterStatus(visits[v].run) \in Stages
             /\ (phase[visits[v].run] = "failed") \in BOOLEAN
  <2>1. visits[v].run \in Runs
    <3>1. visits[v] \in Visits
      BY <1>2
    <3> QED  BY <3>1 DEF Visits
  <2>2. phase[visits[v].run] \in Phases
    BY <2>1 DEF PhaseType
  <2> QED  BY <2>1, <2>2 DEF StatusOf, Statuses, AfterStatus, Stages
<1>4. ASSUME NEW v \in DOMAIN visits, StatusAnswered(v) PROVE PageInv'
  <2>1. CASE Cancelled(v)
    BY <1>2, <1>4, <2>1, StageKeeps DEF StatusAnswered, Stages
  <2>2. CASE ~Cancelled(v)
    <3>1. /\ shown' \in Pages /\ shown'.events = shown.events /\ shown'.results = shown.results
          /\ shown'.status.of = visits[v].run
      BY <1>2, <1>3, <1>4, <2>2, ShowStatus DEF StatusAnswered
    <3> QED  BY <1>3, <1>4, <2>2, <3>1, StageKeeps DEF StatusAnswered
  <2> QED  BY <2>1, <2>2
<1>5. ASSUME NEW v \in DOMAIN visits, StreamEvent(v) PROVE PageInv'
  <2>1. /\ shown.status \in Statuses /\ shown.runError \in BOOLEAN
        /\ shown' = [shown EXCEPT !.events = Append(@, Message(v)),
                                  !.status = shown.status, !.runError = shown.runError]
    BY <1>2, <1>5 DEF StreamEvent, Pages
  <2> QED  BY <1>5, <2>1, MessageKeeps DEF StreamEvent, Stages
<1>6. ASSUME NEW v \in DOMAIN visits, StreamDone(v) PROVE PageInv'
  BY <1>3, <1>6, MessageKeeps DEF StreamDone
<1>7. ASSUME NEW v \in DOMAIN visits, ResultsAnswered(v) PROVE PageInv'
  <2>1. /\ shown' \in Pages /\ shown'.events = shown.events /\ shown'.status = shown.status
        /\ shown'.results = visits[v].run
    BY <1>2, <1>3, <1>7, ShowResults DEF ResultsAnswered
  <2> QED  BY <1>7, <2>1, StageKeeps DEF ResultsAnswered, Stages
<1>8. ASSUME NEW v \in DOMAIN visits, Raises(v) PROVE PageInv'
  <2>1. /\ shown' \in Pages /\ shown'.events = shown.events /\ shown'.status = shown.status
        /\ shown'.results = shown.results
    BY <1>2, <1>8, ShowError DEF Raises
  <2> QED  BY <1>8, <2>1, StageKeeps DEF Raises, Stages
<1>9. ASSUME NEW r \in Runs, ServerStep(r), UNCHANGED page PROVE PageInv'
  BY <1>0, <1>9
<1> QED  BY <1>0, <1>1, <1>4, <1>5, <1>6, <1>7, <1>8, <1>9 DEF PageSteps, PageNext, Returns

LEMMA AlwaysPageInv == Spec => []PageInv
<1>1. Init => PageInv
  <2> SUFFICES ASSUME Init PROVE PageInv
    OBVIOUS
  <2>1. PICK r \in Runs : visits = <<Visit(r)>>
    BY DEF Init, PageInit
  <2>2. Visit(r) \in Visits
    BY DEF Visit, Visits, Stages
  <2>3. visits \in Seq(Visits) /\ Len(visits) = 1 /\ visits[Len(visits)] = Visit(r)
    BY <2>1, <2>2
  <2>4. shown = Blank /\ leftWaiting = {}
    BY DEF Init, PageInit
  <2>5. Blank \in Pages
    BY DEF Blank, NoStatus, Pages, Statuses
  <2>6. ShowsVisit(Visit(r), Blank, {})
    BY DEF ShowsVisit, Blank, Visit
  <2>7. \A v \in 1..Len(visits) - 1 : Left(visits[v], leftWaiting)
    BY <2>3
  <2>8. Len(visits) > 0
    BY <2>3
  <2>10. leftWaiting \subseteq Runs
    BY <2>4
  <2>9. ShowsVisit(visits[Len(visits)], shown, leftWaiting)
    BY <2>3, <2>4, <2>6
  <2> QED  BY <2>3, <2>4, <2>5, <2>7, <2>8, <2>9, <2>10 DEF PageInv, PageOK
<1> QED  BY <1>1, AlwaysPhaseType, PageNextKeeps, PTL DEF Spec

LEMMA CurrentIsLast == PageInv => ShowsVisit(Current, shown, leftWaiting) /\ shown \in Pages
  BY DEF PageInv, PageOK, Current, Last

\* Through any navigation, the feed is a prefix of the stream of the run in the
\* address bar and the status is that run's; the results are too, or those of a
\* run that was left while they were awaited.
THEOREM PageBelongs == Spec => []PageShowsItsRun
<1>1. PageInv => FeedIsThisRunsLog
  <2> SUFFICES ASSUME PageInv PROVE FeedIsThisRunsLog
    OBVIOUS
  <2>1. shown.events \in Seq([of : Runs, nr : Nat])
    BY CurrentIsLast DEF Pages
  <2>2. DOMAIN shown.events = 1..Len(shown.events)
    BY <2>1
  <2> QED  BY <2>2, CurrentIsLast DEF ShowsVisit, FeedIsThisRunsLog
<1>2. PageInv => StatusIsThisRuns
  BY CurrentIsLast DEF ShowsVisit, StatusIsThisRuns
<1>3. PageInv => ResultsAreThisRuns
  BY CurrentIsLast DEF ShowsVisit, ResultsAreThisRuns
<1>4. PageInv => PageShowsItsRun
  BY <1>1, <1>2, <1>3 DEF PageShowsItsRun
<1> QED  BY <1>4, AlwaysPageInv, PTL

-----------------------------------------------------------------------------
(* The notifications                                                       *)

PollingSteps == PollingNext \/ UNCHANGED <<server, polling>>

\* focus never moves: while it is on the polls, the server moves only as observed.
LEMMA PollingPart ==
  ASSUME [Next]_vars
  PROVE  /\ focus' = focus
         /\ PollingSteps \/ (focus # "polling" /\ UNCHANGED polling)
  BY DEF Next, Polls, Shows, Holds, vars, PollingSteps

Lists == UNION {[D -> Phases] : D \in SUBSET Runs}

Answers == [runs : Lists, late : BOOLEAN]

\* The list shows no run running that was not.
Seen(runs, S) == \A r \in DOMAIN runs : runs[r] = "running" => r \in S

\* Where an element was before the i-th was removed.
Before(k, i) == IF k < i THEN k ELSE k + 1

LEMMA RemoveAtIs ==
  ASSUME NEW S, NEW s \in Seq(S), NEW i \in DOMAIN s
  PROVE  /\ RemoveAt(s, i) \in Seq(S)
         /\ DOMAIN RemoveAt(s, i) = 1..Len(s) - 1
         /\ \A k \in 1..Len(s) - 1 : Before(k, i) \in DOMAIN s /\ RemoveAt(s, i)[k] = s[Before(k, i)]
<1>1. i \in 1..Len(s)
  OBVIOUS
<1> DEFINE before == SubSeq(s, 1, i - 1)
           after == SubSeq(s, i + 1, Len(s))
<1>2. /\ before \in Seq(S) /\ Len(before) = i - 1
      /\ \A k \in 1..i - 1 : before[k] = s[k]
  <2>1. 1 \in Int /\ i - 1 \in Int /\ \A k \in 1..i - 1 : s[k] \in S
    BY <1>1
  <2> QED  BY <1>1, <2>1, SubSeqProperties
<1>3. /\ after \in Seq(S) /\ Len(after) = Len(s) - i
      /\ \A k \in 1..Len(s) - i : after[k] = s[i + k]
  <2>1. i + 1 \in Int /\ Len(s) \in Int /\ \A k \in i + 1..Len(s) : s[k] \in S
    BY <1>1
  <2>2. /\ after \in Seq(S) /\ Len(after) = IF i + 1 <= Len(s) THEN Len(s) - (i + 1) + 1 ELSE 0
        /\ \A k \in 1..Len(s) - (i + 1) + 1 : after[k] = s[i + 1 + k - 1]
    BY <2>1, SubSeqProperties
  <2> QED  BY <1>1, <2>2
<1> HIDE DEF before, after
<1>4. RemoveAt(s, i) = before \o after
  BY DEF RemoveAt, before, after
<1>5. /\ before \o after \in Seq(S)
      /\ Len(before \o after) = Len(s) - 1
      /\ \A k \in 1..Len(s) - 1 :
           (before \o after)[k] = IF k <= i - 1 THEN before[k] ELSE after[k - (i - 1)]
  <2> DEFINE both == before \o after
             nb == Len(before)
             na == Len(after)
  <2>1. /\ both \in Seq(S)
        /\ Len(both) = nb + na
        /\ \A k \in 1..nb + na : both[k] = IF k <= nb THEN before[k] ELSE after[k - nb]
    BY <1>2, <1>3, ConcatProperties
  <2>2. nb = i - 1 /\ na = Len(s) - i /\ nb + na = Len(s) - 1
    BY <1>1, <1>2, <1>3
  <2> HIDE DEF both, nb, na
  <2>3. /\ both \in Seq(S)
        /\ Len(both) = Len(s) - 1
        /\ \A k \in 1..Len(s) - 1 : both[k] = IF k <= i - 1 THEN before[k] ELSE after[k - (i - 1)]
    BY <2>1, <2>2
  <2> QED  BY <2>3 DEF both
<1> DEFINE rest == RemoveAt(s, i)
<1>6. /\ rest \in Seq(S)
      /\ Len(rest) = Len(s) - 1
      /\ \A k \in 1..Len(s) - 1 :
           rest[k] = IF k <= i - 1 THEN before[k] ELSE after[k - (i - 1)]
  BY <1>4, <1>5
<1> HIDE DEF rest
<1>7. ASSUME NEW k \in 1..Len(s) - 1
      PROVE  Before(k, i) \in DOMAIN s /\ rest[k] = s[Before(k, i)]
  <2>1. CASE k < i
    <3>1. k \in 1..i - 1 /\ k <= i - 1 /\ k \in DOMAIN s /\ Before(k, i) = k
      BY <1>1, <1>7, <2>1 DEF Before
    <3>2. rest[k] = before[k]
      BY <1>6, <3>1
    <3> QED  BY <1>2, <3>1, <3>2
  <2>2. CASE k >= i
    <3> DEFINE j == k - (i - 1)
    <3>1. j \in 1..Len(s) - i /\ ~(k <= i - 1) /\ i + j \in DOMAIN s /\ Before(k, i) = i + j
      BY <1>1, <1>7, <2>2 DEF Before
    <3>2. rest[k] = after[j]
      BY <1>6, <1>7, <3>1
    <3>3. after[j] = s[i + j]
      BY <1>3, <3>1
    <3> QED  BY <3>1, <3>2, <3>3
  <2> QED  BY <1>1, <1>7, <2>1, <2>2
<1>8. DOMAIN rest = 1..Len(s) - 1
  BY <1>6
<1> QED  BY <1>6, <1>7, <1>8 DEF rest

LEMMA RemoveAtKeeps ==
  ASSUME NEW S, NEW s \in Seq(S), NEW i \in DOMAIN s
  PROVE  /\ RemoveAt(s, i) \in Seq(S)
         /\ \A k \in DOMAIN RemoveAt(s, i) : \E m \in DOMAIN s : RemoveAt(s, i)[k] = s[m]
<1>1. /\ RemoveAt(s, i) \in Seq(S)
      /\ DOMAIN RemoveAt(s, i) = 1..Len(s) - 1
      /\ \A k \in 1..Len(s) - 1 : Before(k, i) \in DOMAIN s /\ RemoveAt(s, i)[k] = s[Before(k, i)]
  BY RemoveAtIs
<1> QED  BY <1>1

\* A notification needs a run that some answer has shown as running.
PollingInv ==
  /\ answers \in Seq(Answers)
  /\ \A i \in DOMAIN answers : Seen(answers[i].runs, ran)
  /\ Seen(previous, ran)
  /\ told \in [Runs -> Nat]
  /\ NotifiedRunsRan
  /\ focus = "polling" => \A r \in Runs : phase[r] = "running" => r \in ran

LEMMA PollingNextKeeps ==
  PhaseType /\ PollingInv /\ [Next]_vars => PollingInv'
<1> SUFFICES ASSUME PhaseType, PollingInv, [Next]_vars PROVE PollingInv'
  OBVIOUS
<1>0. focus' = focus
  BY PollingPart
<1>1. CASE focus # "polling" /\ UNCHANGED polling
  BY <1>0, <1>1 DEF PollingInv, polling, NotifiedRunsRan
<1>2. CASE UNCHANGED <<server, polling>>
  BY <1>0, <1>2 DEF PollingInv, server, polling, NotifiedRunsRan
<1>3. CASE Observe
  BY <1>3 DEF Observe, PollingInv, Seen, NotifiedRunsRan
<1>4. CASE Poll
  BY <1>0, <1>4 DEF Poll, PollingInv, server, NotifiedRunsRan
<1>5. CASE List /\ focus = "polling"
  <2> DEFINE answer == [runs |-> Listed, late |-> FALSE]
  <2>1. Listed \in Lists
    <3>1. {x \in Runs : phase[x] # "absent"} \in SUBSET Runs
      OBVIOUS
    <3>2. Listed \in [{x \in Runs : phase[x] # "absent"} -> Phases]
      BY DEF Listed, PhaseType
    <3> QED  BY <3>1, <3>2 DEF Lists
  <2>2. answer \in Answers /\ answer.runs = Listed
    BY <2>1 DEF Answers
  <2>3. Seen(Listed, ran)
    BY <1>5 DEF Listed, Seen, PollingInv
  <2>4. answers' = Append(answers, answer) /\ UNCHANGED <<phase, previous, told, ran>>
    BY <1>5 DEF List, server
  <2> HIDE DEF answer
  <2>5. answers' \in Seq(Answers)
    BY <2>2, <2>4 DEF PollingInv
  <2>6. ASSUME NEW i \in DOMAIN answers' PROVE Seen(answers'[i].runs, ran)
    <3>1. i \in 1..Len(answers) \/ i = Len(answers) + 1
      BY <2>2, <2>4 DEF PollingInv
    <3>2. CASE i \in 1..Len(answers)
      <4>1. answers'[i] = answers[i] /\ i \in DOMAIN answers
        BY <2>2, <2>4, <3>2, AppendAt DEF PollingInv
      <4> QED  BY <4>1 DEF PollingInv
    <3>3. CASE i = Len(answers) + 1
      <4>1. answers'[i] = answer
        BY <2>2, <2>4, <3>3, AppendAt DEF PollingInv
      <4> QED  BY <2>2, <2>3, <4>1
    <3> QED  BY <3>1, <3>2, <3>3
  <2> QED  BY <1>0, <2>4, <2>5, <2>6 DEF PollingInv, NotifiedRunsRan
<1>6. ASSUME NEW i \in DOMAIN answers, Apply(i) PROVE PollingInv'
  <2> DEFINE late == [k \in DOMAIN answers |-> [answers[k] EXCEPT !.late = @ \/ k < i]]
  <2>1. /\ answers' = RemoveAt(late, i)
        /\ previous' = answers[i].runs
        /\ told' = [r \in Runs |-> IF r \in Transitions(previous, answers[i].runs)
                                    THEN Count(told[r]) ELSE told[r]]
        /\ UNCHANGED <<phase, ran>>
    BY <1>6 DEF Apply, NextStatuses, server
  <2>2. /\ late \in Seq(Answers) /\ DOMAIN late = DOMAIN answers
        /\ \A k \in DOMAIN answers : late[k].runs = answers[k].runs
    <3>1. \A k \in DOMAIN answers : answers[k] \in Answers
      BY DEF PollingInv
    <3>2. ASSUME NEW k \in DOMAIN answers
          PROVE  /\ [answers[k] EXCEPT !.late = @ \/ k < i] \in Answers
                 /\ [answers[k] EXCEPT !.late = @ \/ k < i].runs = answers[k].runs
      <4>1. (answers[k].late \/ k < i) \in BOOLEAN
        OBVIOUS
      <4> QED  BY <3>1, <4>1 DEF Answers
    <3>3. DOMAIN answers = 1..Len(answers) /\ Len(answers) \in Nat
      BY DEF PollingInv
    <3>4. \A k \in DOMAIN answers : late[k] \in Answers /\ late[k].runs = answers[k].runs
      BY <3>2
    <3>5. DOMAIN late = DOMAIN answers
      OBVIOUS
    <3> HIDE DEF late
    <3>6. late = [k \in 1..Len(answers) |-> late[k]]
      BY <3>3, <3>5 DEF late
    <3>7. late \in Seq(Answers)
      BY <3>3, <3>4, <3>6
    <3> QED  BY <3>4, <3>5, <3>7
  <2> HIDE DEF late
  <2>3. answers' \in Seq(Answers) /\ \A k \in DOMAIN answers' : Seen(answers'[k].runs, ran)
    <3>1. /\ answers' \in Seq(Answers)
          /\ \A k \in DOMAIN answers' : \E m \in DOMAIN late : answers'[k] = late[m]
      BY <2>1, <2>2, RemoveAtKeeps
    <3> QED  BY <2>2, <3>1 DEF PollingInv
  <2>4. \A r \in Transitions(previous, answers[i].runs) : r \in ran
    BY DEF Transitions, PollingInv, Seen
  <2>5. told' \in [Runs -> Nat]
    BY <2>1, PollingAssumption DEF PollingInv, Count
  <2>6. NotifiedRunsRan'
    BY <2>1, <2>4 DEF PollingInv, NotifiedRunsRan
  <2> QED  BY <1>0, <2>1, <2>3, <2>5, <2>6 DEF PollingInv
<1>7. CASE PollFails
  <2>1. /\ answers' \in Seq(Answers)
        /\ \A k \in DOMAIN answers' : \E m \in DOMAIN answers : answers'[k] = answers[m]
    <3>1. CASE UNCHANGED answers
      BY <3>1 DEF PollingInv
    <3>2. ASSUME NEW i \in DOMAIN answers, answers' = RemoveAt(answers, i)
          PROVE  /\ answers' \in Seq(Answers)
                 /\ \A k \in DOMAIN answers' : \E m \in DOMAIN answers : answers'[k] = answers[m]
      BY <3>2, RemoveAtKeeps DEF PollingInv
    <3> QED  BY <1>7, <3>1, <3>2 DEF PollFails
  <2> QED  BY <1>0, <1>7, <2>1 DEF PollFails, PollingInv, server, NotifiedRunsRan
<1> QED
  BY <1>0, <1>1, <1>2, <1>3, <1>4, <1>5, <1>6, <1>7, PollingPart
  DEF PollingSteps, PollingNext, Next, Polls, Shows, Holds, vars

\* No notification is about a run that was not running since the page was
\* opened, whatever polls are lost, overtaken or late.
THEOREM NotificationsAreEarned == Spec => []NotifiedRunsRan
<1>1. Init => PollingInv
  BY DEF Init, PollingInit, PollingInv, Seen, NotifiedRunsRan
<1>2. PollingInv => NotifiedRunsRan
  BY DEF PollingInv
<1> QED  BY <1>1, <1>2, AlwaysPhaseType, PollingNextKeeps, PTL DEF Spec

\* Notifications in order.  Every list is a moment of a run: the status it shows,
\* and how many endings there had been, which no list carries.

StatusIn(runs, r) == IF r \in DOMAIN runs THEN runs[r] ELSE "absent"

Ended(before, after) == before = "running" /\ after \in Terminal

Counted(n, ended) == IF ended THEN Count(n) ELSE n

\* n endings at the moment of status s leave room for m at the later one of t.
Leads(n, s, m, t) == Counted(n, Ended(s, t)) <= m

Started == {"running"} \cup Terminal

\* The answers in flight follow one another, the server is past them all, and the
\* notifications raised so far are covered by every answer that is still to be
\* applied in order.
Follows(f, as, before, n, now, e, r) ==
  /\ \A i, j \in DOMAIN as : i < j => Leads(f[i], StatusIn(as[i].runs, r), f[j], StatusIn(as[j].runs, r))
  /\ \A i \in DOMAIN as : /\ Leads(f[i], StatusIn(as[i].runs, r), e, now)
                          /\ StatusIn(as[i].runs, r) = "running" => now \in Started
                          /\ ~as[i].late => Leads(n, StatusIn(before, r), f[i], StatusIn(as[i].runs, r))
  /\ Leads(n, StatusIn(before, r), e, now)
  /\ StatusIn(before, r) = "running" => now \in Started

Counts == 0..MaxCount

InOrder(as, before, n, now, e, r) ==
  \E f \in [DOMAIN as -> Counts] : Follows(f, as, before, n, now, e, r)

OrderInv ==
  /\ answers \in Seq(Answers)
  /\ told \in [Runs -> Counts] /\ endings \in [Runs -> Counts]
  /\ overtaken \in BOOLEAN
  /\ InOrderNotifiesOnce
  /\ focus = "polling" /\ ~overtaken =>
       \A r \in Runs : InOrder(answers, previous, told[r], phase[r], endings[r], r)

LEMMA CountGrows ==
  /\ \A n \in Counts : Count(n) \in Counts /\ n <= Count(n)
  /\ \A n, m \in Counts : n <= m => Count(n) <= Count(m)
  BY PollingAssumption DEF Count, Counts

LEMMA CountedGrows ==
  ASSUME NEW n \in Counts, NEW ended \in BOOLEAN
  PROVE  Counted(n, ended) \in Counts /\ n <= Counted(n, ended)
  BY CountGrows, PollingAssumption DEF Counted, Counts

\* With fewer endings at the earlier moment there is room all the more.
LEMMA FewerLead ==
  ASSUME NEW n \in Counts, NEW m \in Counts, NEW k \in Counts, NEW s, NEW t,
         n <= m, Leads(m, s, k, t)
  PROVE  Leads(n, s, k, t)
<1>1. Count(n) \in Counts /\ Count(m) \in Counts /\ Count(n) <= Count(m)
  BY CountGrows
<1> HIDE DEF Ended
<1>2. n \in Nat /\ m \in Nat /\ k \in Nat /\ Count(n) \in Nat /\ Count(m) \in Nat
  BY <1>1, PollingAssumption DEF Counts
<1>3. CASE Ended(s, t)
  BY <1>1, <1>2, <1>3 DEF Leads, Counted
<1>4. CASE ~Ended(s, t)
  BY <1>1, <1>2, <1>4 DEF Leads, Counted
<1> QED  BY <1>3, <1>4

LEMMA LeadsUp ==
  ASSUME NEW n \in Counts, NEW m \in Counts, NEW s, NEW t, Leads(n, s, m, t)
  PROVE  n <= m
<1>1. CASE Ended(s, t)
  <2>1. Count(n) <= m /\ n <= Count(n) /\ Count(n) \in Counts
    BY <1>1, CountGrows DEF Leads, Counted
  <2> QED  BY <2>1, PollingAssumption DEF Counts
<1>2. CASE ~Ended(s, t)
  BY <1>2 DEF Leads, Counted
<1> QED  BY <1>1, <1>2

\* The server moves on: an ending that a moment would show has been counted.
LEMMA MomentsStayPast ==
  ASSUME NEW n \in Counts, NEW e \in Counts, NEW s, NEW now \in Phases, NEW next \in Phases,
         now \in Started => next \in Started,
         Leads(n, s, e, now), s = "running" => now \in Started
  PROVE  /\ Leads(n, s, Counted(e, Ended(now, next)), next)
         /\ s = "running" => next \in Started
<1> DEFINE later == Counted(e, Ended(now, next))
<1>1. later \in Counts /\ e <= later
  BY CountedGrows DEF Ended
<1>2. n <= e
  BY LeadsUp
<1>3. n \in Nat /\ e \in Nat /\ later \in Nat /\ Count(n) \in Nat
  BY <1>1, CountGrows, PollingAssumption DEF Counts
<1>4. CASE ~Ended(s, next)
  <2>1. n <= later
    BY <1>1, <1>2, <1>3
  <2> QED  BY <1>4, <2>1 DEF Leads, Counted
<1>5. CASE Ended(s, next) /\ now = "running"
  <2>1. Ended(now, next)
    BY <1>5 DEF Ended
  <2>2. later = Count(e)
    BY <2>1 DEF Counted
  <2>3. Count(n) <= Count(e)
    BY <1>2, CountGrows
  <2> QED  BY <1>5, <2>2, <2>3 DEF Leads, Counted, Ended, Started
<1>6. CASE Ended(s, next) /\ now # "running"
  <2>1. Ended(s, now)
    BY <1>6 DEF Ended, Started
  <2>2. Count(n) <= e
    BY <2>1 DEF Leads, Counted
  <2>3. Count(n) <= later
    BY <1>1, <1>3, <2>2
  <2> QED  BY <1>6, <2>3 DEF Leads, Counted, Ended, Started
<1> QED  BY <1>4, <1>5, <1>6

LEMMA ServerMovesOn ==
  ASSUME PhaseType, Observe, NEW r \in Runs
  PROVE  /\ phase[r] \in Phases /\ phase'[r] \in Phases
         /\ phase[r] \in Started => phase'[r] \in Started
         /\ endings'[r] = Counted(endings[r], Ended(phase[r], phase'[r]))
<1>1. PICK x \in Runs : ServerStep(x)
  BY PollingAssumption DEF Observe
<1>2. phase[r] \in Phases /\ phase'[r] \in Phases /\ (phase[r] \in Started => phase'[r] \in Started)
  <2>1. ASSUME NEW st \in Phases, Become(x, st), phase[x] \in Started => st \in Started
        PROVE  phase[r] \in Phases /\ phase'[r] \in Phases /\ (phase[r] \in Started => phase'[r] \in Started)
    BY <2>1 DEF Become, PhaseType
  <2>2. CASE Decide(x)
    BY <2>2 DEF Decide, PhaseType
  <2>3. CASE Create(x)
    BY <2>1, <2>3 DEF Create, Phases, Started, Terminal
  <2>4. CASE Start(x)
    BY <2>1, <2>4 DEF Start, Phases, Started, Terminal
  <2>5. CASE Publish(x)
    BY <2>1, <2>5 DEF Publish, Phases, Started, Terminal
  <2>6. CASE Fail(x)
    BY <2>1, <2>6 DEF Fail, Phases, Started, Terminal
  <2> QED  BY <1>1, <2>2, <2>3, <2>4, <2>5, <2>6 DEF ServerStep
<1>3. endings'[r] = Counted(endings[r], Ended(phase[r], phase'[r]))
  BY DEF Observe, Counted, Ended
<1> QED  BY <1>2, <1>3

LEMMA ObserveInOrder ==
  ASSUME PhaseType, OrderInv, Observe, NEW r \in Runs,
         InOrder(answers, previous, told[r], phase[r], endings[r], r)
  PROVE  InOrder(answers', previous', told'[r], phase'[r], endings'[r], r)
<1>1. PICK f \in [DOMAIN answers -> Counts] :
         Follows(f, answers, previous, told[r], phase[r], endings[r], r)
  BY DEF InOrder
<1>2. UNCHANGED <<answers, previous, told>>
  BY DEF Observe
<1>3. told[r] \in Counts /\ endings[r] \in Counts
  BY DEF OrderInv
<1>4. /\ phase[r] \in Phases /\ phase'[r] \in Phases
      /\ phase[r] \in Started => phase'[r] \in Started
      /\ endings'[r] = Counted(endings[r], Ended(phase[r], phase'[r]))
  BY ServerMovesOn
<1>5. ASSUME NEW n \in Counts, NEW s, Leads(n, s, endings[r], phase[r]),
             s = "running" => phase[r] \in Started
      PROVE  Leads(n, s, endings'[r], phase'[r]) /\ (s = "running" => phase'[r] \in Started)
  BY <1>3, <1>4, <1>5, MomentsStayPast
<1>6. Follows(f, answers, previous, told[r], phase'[r], endings'[r], r)
  <2>1. /\ Leads(told[r], StatusIn(previous, r), endings'[r], phase'[r])
        /\ StatusIn(previous, r) = "running" => phase'[r] \in Started
    BY <1>1, <1>3, <1>5 DEF Follows
  <2>2. ASSUME NEW i \in DOMAIN answers
        PROVE  /\ Leads(f[i], StatusIn(answers[i].runs, r), endings'[r], phase'[r])
               /\ StatusIn(answers[i].runs, r) = "running" => phase'[r] \in Started
    BY <1>1, <1>5 DEF Follows
  <2> QED  BY <1>1, <2>1, <2>2 DEF Follows
<1> QED  BY <1>2, <1>6 DEF InOrder

LEMMA ListInOrder ==
  ASSUME PhaseType, OrderInv, List, NEW r \in Runs,
         InOrder(answers, previous, told[r], phase[r], endings[r], r)
  PROVE  InOrder(answers', previous', told'[r], phase'[r], endings'[r], r)
<1> DEFINE answer == [runs |-> Listed, late |-> FALSE]
           n == Len(answers)
<1>1. PICK f \in [DOMAIN answers -> Counts] :
         Follows(f, answers, previous, told[r], phase[r], endings[r], r)
  BY DEF InOrder
<1>2. answers' = Append(answers, answer) /\ UNCHANGED <<phase, previous, told, endings>>
  BY DEF List, server
<1>3. /\ DOMAIN answers = 1..n /\ DOMAIN answers' = 1..n + 1 /\ n \in Nat
      /\ answers'[n + 1] = answer /\ \A i \in 1..n : answers'[i] = answers[i]
  BY <1>2 DEF OrderInv
<1>4. StatusIn(answer.runs, r) = phase[r]
  BY DEF StatusIn, Listed
<1> HIDE DEF answer, n
<1> DEFINE g == [i \in 1..n + 1 |-> IF i = n + 1 THEN endings[r] ELSE f[i]]
<1>5. /\ g \in [DOMAIN answers' -> Counts] /\ g[n + 1] = endings[r]
      /\ \A i \in 1..n : g[i] = f[i]
  BY <1>1, <1>3 DEF OrderInv
<1> HIDE DEF g
<1>6. Leads(endings[r], phase[r], endings[r], phase[r])
  BY PollingAssumption DEF Leads, Counted, Ended, Terminal, OrderInv, Counts
<1>7. \A i \in 1..n + 1 : i = n + 1 \/ i \in 1..n
  BY <1>3
<1>8. ASSUME NEW i \in 1..n + 1, NEW j \in 1..n + 1, i < j
      PROVE  Leads(g[i], StatusIn(answers'[i].runs, r), g[j], StatusIn(answers'[j].runs, r))
  <2>1. i \in 1..n
    BY <1>3, <1>8
  <2>2. CASE j \in 1..n
    BY <1>1, <1>3, <1>5, <1>8, <2>1, <2>2 DEF Follows
  <2>3. CASE j = n + 1
    BY <1>1, <1>3, <1>4, <1>5, <2>1, <2>3 DEF Follows
  <2> QED  BY <1>7, <2>2, <2>3
<1>9. ASSUME NEW i \in 1..n + 1
      PROVE  /\ Leads(g[i], StatusIn(answers'[i].runs, r), endings[r], phase[r])
             /\ StatusIn(answers'[i].runs, r) = "running" => phase[r] \in Started
             /\ ~answers'[i].late =>
                  Leads(told[r], StatusIn(previous, r), g[i], StatusIn(answers'[i].runs, r))
  <2>1. CASE i \in 1..n
    BY <1>1, <1>3, <1>5, <2>1 DEF Follows
  <2>2. CASE i = n + 1
    BY <1>1, <1>3, <1>4, <1>5, <1>6, <2>2 DEF Follows, Started
  <2> QED  BY <1>7, <2>1, <2>2
<1>10. Follows(g, answers', previous, told[r], phase[r], endings[r], r)
  BY <1>1, <1>3, <1>8, <1>9 DEF Follows
<1> QED  BY <1>2, <1>5, <1>10 DEF InOrder

LEMMA SeqDomain ==
  ASSUME NEW S, NEW s \in Seq(S)
  PROVE  DOMAIN s = 1..Len(s) /\ Len(s) \in Nat
  OBVIOUS

\* An answer that leaves, applied or lost, leaves the others in their order.
LEMMA OthersInOrder ==
  ASSUME NEW as \in Seq(Answers), NEW i \in DOMAIN as, NEW r \in Runs,
         NEW f \in [DOMAIN as -> Counts], NEW rest,
         DOMAIN rest = 1..Len(as) - 1,
         \A k \in DOMAIN rest : /\ Before(k, i) \in DOMAIN as
                                /\ rest[k].runs = as[Before(k, i)].runs,
         NEW before, NEW after, NEW n, NEW n2, NEW now, NEW e,
         Follows(f, as, before, n, now, e, r),
         \A k \in DOMAIN rest : ~rest[k].late =>
           Leads(n2, StatusIn(after, r), f[Before(k, i)], StatusIn(rest[k].runs, r)),
         Leads(n2, StatusIn(after, r), e, now),
         StatusIn(after, r) = "running" => now \in Started
  PROVE  InOrder(rest, after, n2, now, e, r)
<1> DEFINE g == [k \in DOMAIN rest |-> f[Before(k, i)]]
<1>1. g \in [DOMAIN rest -> Counts] /\ \A k \in DOMAIN rest : g[k] = f[Before(k, i)]
  OBVIOUS
<1> HIDE DEF g
<1>2. ASSUME NEW k \in DOMAIN rest, NEW l \in DOMAIN rest, k < l
      PROVE  Before(k, i) < Before(l, i)
  <2>1. Len(as) \in Nat /\ i \in 1..Len(as)
    BY SeqDomain
  <2>2. i \in Int /\ k \in Int /\ l \in Int
    BY <2>1
  <2> QED  BY <1>2, <2>2 DEF Before
<1>3. ASSUME NEW k \in DOMAIN rest, NEW l \in DOMAIN rest, k < l
      PROVE  Leads(g[k], StatusIn(rest[k].runs, r), g[l], StatusIn(rest[l].runs, r))
  BY <1>1, <1>2, <1>3 DEF Follows
<1>4. ASSUME NEW k \in DOMAIN rest
      PROVE  /\ Leads(g[k], StatusIn(rest[k].runs, r), e, now)
             /\ StatusIn(rest[k].runs, r) = "running" => now \in Started
             /\ ~rest[k].late => Leads(n2, StatusIn(after, r), g[k], StatusIn(rest[k].runs, r))
  BY <1>1 DEF Follows
<1>5. Follows(g, rest, after, n2, now, e, r)
  BY <1>3, <1>4 DEF Follows
<1> QED  BY <1>1, <1>5 DEF InOrder

LEMMA ApplyToldIs ==
  ASSUME NEW i \in DOMAIN answers, Apply(i), NEW r \in Runs
  PROVE  told'[r] = Counted(told[r], Ended(StatusIn(previous, r), StatusIn(answers[i].runs, r)))
<1>1. r \in Transitions(previous, answers[i].runs)
        <=> Ended(StatusIn(previous, r), StatusIn(answers[i].runs, r))
  BY DEF Transitions, Ended, StatusIn, Terminal
<1>2. told'[r] = IF r \in Transitions(previous, answers[i].runs) THEN Count(told[r]) ELSE told[r]
  BY DEF Apply
<1> QED  BY <1>1, <1>2 DEF Counted

LEMMA AnswersAfter ==
  ASSUME answers \in Seq(Answers), NEW i \in DOMAIN answers, Apply(i)
  PROVE  /\ answers' \in Seq(Answers)
         /\ DOMAIN answers' = 1..Len(answers) - 1
         /\ \A k \in DOMAIN answers' :
              /\ Before(k, i) \in DOMAIN answers
              /\ answers'[k].runs = answers[Before(k, i)].runs
              /\ ~answers'[k].late => ~answers[Before(k, i)].late /\ ~(Before(k, i) < i)
<1> DEFINE late == [k \in DOMAIN answers |-> [answers[k] EXCEPT !.late = @ \/ k < i]]
<1>1. answers' = RemoveAt(late, i)
  BY DEF Apply
<1>2. \A k \in DOMAIN answers : answers[k] \in Answers
  OBVIOUS
<1>3. ASSUME NEW k \in DOMAIN answers
      PROVE  /\ [answers[k] EXCEPT !.late = @ \/ k < i] \in Answers
             /\ [answers[k] EXCEPT !.late = @ \/ k < i].runs = answers[k].runs
             /\ [answers[k] EXCEPT !.late = @ \/ k < i].late <=> (answers[k].late \/ k < i)
  <2>1. (answers[k].late \/ k < i) \in BOOLEAN
    OBVIOUS
  <2>2. [answers[k] EXCEPT !.late = @ \/ k < i] \in Answers
    BY <1>2, <2>1 DEF Answers
  <2>3. [answers[k] EXCEPT !.late = @ \/ k < i].runs = answers[k].runs
    BY <1>2 DEF Answers
  <2>4. [answers[k] EXCEPT !.late = @ \/ k < i].late = (answers[k].late \/ k < i)
    BY <1>2 DEF Answers
  <2> QED  BY <2>2, <2>3, <2>4
<1>4. DOMAIN answers = 1..Len(answers) /\ Len(answers) \in Nat
  OBVIOUS
<1>5. \A k \in DOMAIN answers : /\ late[k] \in Answers
                                /\ late[k].runs = answers[k].runs
                                /\ late[k].late <=> (answers[k].late \/ k < i)
  BY <1>3
<1>6. DOMAIN late = DOMAIN answers
  OBVIOUS
<1> HIDE DEF late
<1>7. late = [k \in 1..Len(answers) |-> late[k]]
  BY <1>4, <1>6 DEF late
<1>8. late \in Seq(Answers) /\ Len(late) = Len(answers) /\ i \in DOMAIN late
  BY <1>4, <1>5, <1>6, <1>7
<1>9. /\ RemoveAt(late, i) \in Seq(Answers)
      /\ DOMAIN RemoveAt(late, i) = 1..Len(late) - 1
      /\ \A k \in 1..Len(late) - 1 :
           Before(k, i) \in DOMAIN late /\ RemoveAt(late, i)[k] = late[Before(k, i)]
  BY <1>8, RemoveAtIs
<1>10. ASSUME NEW k \in DOMAIN answers'
       PROVE  /\ Before(k, i) \in DOMAIN answers
              /\ answers'[k].runs = answers[Before(k, i)].runs
              /\ ~answers'[k].late => ~answers[Before(k, i)].late /\ ~(Before(k, i) < i)
  <2>1. k \in 1..Len(late) - 1
    BY <1>1, <1>9
  <2>2. Before(k, i) \in DOMAIN answers /\ answers'[k] = late[Before(k, i)]
    BY <1>1, <1>6, <1>9, <2>1
  <2>3. late[Before(k, i)].late <=> (answers[Before(k, i)].late \/ Before(k, i) < i)
    BY <1>5, <2>2
  <2>4. late[Before(k, i)].runs = answers[Before(k, i)].runs
    BY <1>5, <2>2
  <2> QED  BY <2>2, <2>3, <2>4
<1> QED  BY <1>1, <1>8, <1>9, <1>10

LEMMA ApplyInOrder ==
  ASSUME OrderInv, NEW i \in DOMAIN answers, Apply(i), ~overtaken', NEW r \in Runs,
         InOrder(answers, previous, told[r], phase[r], endings[r], r)
  PROVE  InOrder(answers', previous', told'[r], phase'[r], endings'[r], r)
<1> DEFINE n == told[r]
           s == StatusIn(previous, r)
           t == StatusIn(answers[i].runs, r)
<1>1. PICK f \in [DOMAIN answers -> Counts] :
         Follows(f, answers, previous, n, phase[r], endings[r], r)
  BY DEF InOrder
<1>2. /\ previous' = answers[i].runs /\ UNCHANGED <<phase, endings>>
      /\ ~answers[i].late
  BY DEF Apply, NextStatuses, server
<1>3. told'[r] = Counted(n, Ended(s, t))
  BY ApplyToldIs
<1>4. n \in Counts /\ endings[r] \in Counts /\ f[i] \in Counts
  BY <1>1 DEF OrderInv
<1>5. told'[r] \in Counts
  BY <1>3, <1>4, CountedGrows DEF Ended
<1>6. told'[r] <= f[i]
  <2>1. Leads(n, s, f[i], t)
    BY <1>1, <1>2 DEF Follows
  <2> QED  BY <1>3, <2>1 DEF Leads
<1>7. /\ answers \in Seq(Answers)
      /\ DOMAIN answers' = 1..Len(answers) - 1
      /\ \A k \in DOMAIN answers' :
           /\ Before(k, i) \in DOMAIN answers
           /\ answers'[k].runs = answers[Before(k, i)].runs
           /\ ~answers'[k].late => ~answers[Before(k, i)].late /\ ~(Before(k, i) < i)
  <2>1. answers \in Seq(Answers)
    BY DEF OrderInv
  <2> QED  BY <2>1, AnswersAfter
<1>8. Leads(told'[r], t, endings[r], phase[r]) /\ (t = "running" => phase[r] \in Started)
  <2>1. Leads(f[i], t, endings[r], phase[r]) /\ (t = "running" => phase[r] \in Started)
    BY <1>1 DEF Follows
  <2> QED  BY <1>4, <1>5, <1>6, <2>1, FewerLead
<1>9. ASSUME NEW k \in DOMAIN answers', ~answers'[k].late
      PROVE  Leads(told'[r], t, f[Before(k, i)], StatusIn(answers'[k].runs, r))
  <2> DEFINE m == Before(k, i)
  <2>1. m \in DOMAIN answers /\ answers'[k].runs = answers[m].runs /\ ~(m < i)
    BY <1>7, <1>9
  <2>2. i < m
    <3>1. Len(answers) \in Nat /\ DOMAIN answers = 1..Len(answers)
      BY <1>7
    <3>2. i \in Int /\ k \in Int
      BY <1>7, <3>1
    <3> QED  BY <2>1, <3>2 DEF Before
  <2>3. Leads(f[i], t, f[m], StatusIn(answers[m].runs, r)) /\ f[m] \in Counts
    BY <1>1, <2>1, <2>2 DEF Follows
  <2> HIDE DEF m
  <2>4. Leads(told'[r], t, f[m], StatusIn(answers[m].runs, r))
    BY <1>4, <1>5, <1>6, <2>3, FewerLead
  <2> QED  BY <2>1, <2>4 DEF m
<1> HIDE DEF n
<1>10. InOrder(answers', answers[i].runs, told'[r], phase[r], endings[r], r)
  BY <1>1, <1>7, <1>8, <1>9, OthersInOrder
<1> QED  BY <1>2, <1>10

LEMMA LostInOrder ==
  ASSUME OrderInv, NEW i \in DOMAIN answers, answers' = RemoveAt(answers, i), NEW r \in Runs,
         InOrder(answers, previous, told[r], phase[r], endings[r], r)
  PROVE  InOrder(answers', previous, told[r], phase[r], endings[r], r)
<1>1. PICK f \in [DOMAIN answers -> Counts] :
         Follows(f, answers, previous, told[r], phase[r], endings[r], r)
  BY DEF InOrder
<1>2. answers \in Seq(Answers)
  BY DEF OrderInv
<1>3. /\ DOMAIN answers' = 1..Len(answers) - 1
      /\ \A k \in 1..Len(answers) - 1 :
           Before(k, i) \in DOMAIN answers /\ answers'[k] = answers[Before(k, i)]
  BY <1>2, RemoveAtIs
<1>4. \A k \in DOMAIN answers' : ~answers'[k].late =>
        Leads(told[r], StatusIn(previous, r), f[Before(k, i)], StatusIn(answers'[k].runs, r))
  BY <1>1, <1>3 DEF Follows
<1>5. /\ Leads(told[r], StatusIn(previous, r), endings[r], phase[r])
      /\ StatusIn(previous, r) = "running" => phase[r] \in Started
  BY <1>1 DEF Follows
<1>6. \A k \in DOMAIN answers' : /\ Before(k, i) \in DOMAIN answers
                                 /\ answers'[k].runs = answers[Before(k, i)].runs
  BY <1>3
<1> QED  BY <1>1, <1>2, <1>3, <1>4, <1>5, <1>6, OthersInOrder

LEMMA OrderCovers ==
  ASSUME NEW as, NEW before, NEW n \in Counts, NEW now, NEW e \in Counts, NEW r,
         InOrder(as, before, n, now, e, r)
  PROVE  n <= e
<1>1. Leads(n, StatusIn(before, r), e, now)
  BY DEF InOrder, Follows
<1> QED  BY <1>1, LeadsUp

LEMMA OrderNext ==
  PhaseType /\ OrderInv /\ [Next]_vars => OrderInv'
<1> SUFFICES ASSUME PhaseType, OrderInv, [Next]_vars PROVE OrderInv'
  OBVIOUS
<1>0. focus' = focus
  BY PollingPart
<1>1. CASE focus # "polling" /\ UNCHANGED polling
  BY <1>0, <1>1 DEF OrderInv, polling, InOrderNotifiesOnce
<1>2. CASE UNCHANGED <<server, polling>>
  BY <1>0, <1>2 DEF OrderInv, server, polling, InOrderNotifiesOnce
<1>3. ASSUME answers' \in Seq(Answers), told' \in [Runs -> Counts], endings' \in [Runs -> Counts],
             overtaken' \in BOOLEAN, focus = "polling",
             ~overtaken' => ~overtaken,
             ASSUME ~overtaken', NEW r \in Runs,
                    InOrder(answers, previous, told[r], phase[r], endings[r], r)
             PROVE  InOrder(answers', previous', told'[r], phase'[r], endings'[r], r)
      PROVE  OrderInv'
  <2>1. ASSUME ~overtaken', NEW r \in Runs
        PROVE  /\ InOrder(answers', previous', told'[r], phase'[r], endings'[r], r)
               /\ told'[r] <= endings'[r]
    <3>1. InOrder(answers', previous', told'[r], phase'[r], endings'[r], r)
      BY <1>3, <2>1 DEF OrderInv
    <3>2. told'[r] \in Counts /\ endings'[r] \in Counts
      BY <1>3
    <3> QED  BY <3>1, <3>2, OrderCovers
  <2>2. InOrderNotifiesOnce'
    BY <2>1 DEF InOrderNotifiesOnce
  <2> QED  BY <1>3, <2>1, <2>2 DEF OrderInv
<1>4. CASE Observe /\ focus = "polling"
  <2>1. endings' \in [Runs -> Counts]
    BY <1>4, CountGrows DEF Observe, OrderInv
  <2>2. UNCHANGED <<answers, told, overtaken>>
    BY <1>4 DEF Observe
  <2> QED  BY <1>3, <1>4, <2>1, <2>2, ObserveInOrder DEF OrderInv
<1>5. CASE Poll /\ focus = "polling"
  BY <1>0, <1>5 DEF Poll, OrderInv, server, InOrderNotifiesOnce
<1>6. CASE List /\ focus = "polling"
  <2>1. [runs |-> Listed, late |-> FALSE] \in Answers
    <3>1. {x \in Runs : phase[x] # "absent"} \in SUBSET Runs
      OBVIOUS
    <3>2. Listed \in [{x \in Runs : phase[x] # "absent"} -> Phases]
      BY DEF Listed, PhaseType
    <3> QED  BY <3>1, <3>2 DEF Lists, Answers
  <2>2. answers' = Append(answers, [runs |-> Listed, late |-> FALSE])
        /\ UNCHANGED <<told, endings, overtaken>>
    BY <1>6 DEF List
  <2>3. answers' \in Seq(Answers)
    BY <2>1, <2>2 DEF OrderInv
  <2> QED  BY <1>3, <1>6, <2>2, <2>3, ListInOrder DEF OrderInv
<1>7. ASSUME NEW i \in DOMAIN answers, Apply(i), focus = "polling" PROVE OrderInv'
  <2>1. answers \in Seq(Answers)
    BY DEF OrderInv
  <2>2. answers' \in Seq(Answers)
    BY <1>7, <2>1, AnswersAfter
  <2>3. told' \in [Runs -> Counts]
    BY <1>7, CountGrows DEF Apply, OrderInv
  <2>4. UNCHANGED endings /\ overtaken' = (overtaken \/ answers[i].late)
    BY <1>7 DEF Apply
  <2>5. overtaken' \in BOOLEAN
    BY <2>4
  <2> QED  BY <1>3, <1>7, <2>2, <2>3, <2>4, <2>5, ApplyInOrder DEF OrderInv
<1>8. CASE PollFails /\ focus = "polling"
  <2>1. UNCHANGED <<phase, previous, told, endings, overtaken>>
    BY <1>8 DEF PollFails, server
  <2>2. CASE UNCHANGED answers
    BY <1>0, <2>1, <2>2 DEF OrderInv, InOrderNotifiesOnce
  <2>3. ASSUME NEW i \in DOMAIN answers, answers' = RemoveAt(answers, i) PROVE OrderInv'
    <3>1. answers \in Seq(Answers)
      BY DEF OrderInv
    <3>2. answers' \in Seq(Answers)
      BY <2>3, <3>1, RemoveAtIs
    <3> QED  BY <1>3, <1>8, <2>1, <2>3, <3>2, LostInOrder DEF OrderInv
  <2> QED  BY <1>8, <2>2, <2>3 DEF PollFails
<1> QED
  BY <1>0, <1>1, <1>2, <1>4, <1>5, <1>6, <1>7, <1>8, PollingPart
  DEF PollingSteps, PollingNext, Next, Polls, Shows, Holds, vars

\* As long as no answer was overtaken by a newer one, no run is notified more
\* often than it ended, however many polls overlap, are lost or see the same end.
THEOREM InOrderPollsNotifyOnce == Spec => []InOrderNotifiesOnce
<1>1. Init => OrderInv
  <2> SUFFICES ASSUME Init PROVE OrderInv
    OBVIOUS
  <2>1. /\ answers = <<>> /\ previous = <<>> /\ overtaken = FALSE
        /\ told = [r \in Runs |-> 0] /\ endings = [r \in Runs |-> 0]
    BY DEF Init, PollingInit
  <2>2. 0 \in Counts
    BY PollingAssumption DEF Counts
  <2>3. answers \in Seq(Answers) /\ DOMAIN answers = {} /\ DOMAIN previous = {}
    BY <2>1
  <2>4. told \in [Runs -> Counts] /\ endings \in [Runs -> Counts]
    BY <2>1, <2>2
  <2>5. ASSUME NEW r \in Runs
        PROVE  InOrder(answers, previous, told[r], phase[r], endings[r], r)
    <3> DEFINE f == [i \in DOMAIN answers |-> 0]
    <3>1. f \in [DOMAIN answers -> Counts]
      BY <2>2
    <3>2. StatusIn(previous, r) = "absent"
      BY <2>3 DEF StatusIn
    <3>3. Leads(told[r], "absent", endings[r], phase[r])
      BY <2>1 DEF Leads, Counted, Ended
    <3> HIDE DEF f
    <3>4. Follows(f, answers, previous, told[r], phase[r], endings[r], r)
      BY <2>3, <3>2, <3>3 DEF Follows
    <3> QED  BY <3>1, <3>4 DEF InOrder
  <2>6. InOrderNotifiesOnce
    BY <2>1 DEF InOrderNotifiesOnce
  <2> QED  BY <2>1, <2>3, <2>4, <2>5, <2>6 DEF OrderInv
<1>2. OrderInv => InOrderNotifiesOnce
  BY DEF OrderInv
<1> QED  BY <1>1, <1>2, AlwaysPhaseType, OrderNext, PTL DEF Spec
=============================================================================
