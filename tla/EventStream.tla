---------------------------- MODULE EventStream -----------------------------
(***************************************************************************)
(* GET /runs/{run_id}/stream (stream_run in api/app.py) over the job       *)
(* store: a Server-Sent Events generator that polls get_job and sends      *)
(* what arrived since its last poll, then a "done" event.                  *)
(*                                                                         *)
(* stream_run is async: all generators run on the event loop, and each     *)
(* get_job is a blocking call there.  The loop is therefore ONE of the     *)
(* store's readers, shared by all streams: holder is the stream whose      *)
(* get_job it is in.  The other readers are the threads of the plain GET   *)
(* handlers; they, the workers and the reaper interleave with it.          *)
(***************************************************************************)
EXTENDS RunStore, Sequences

CONSTANTS
  Streams,   \* connections to /stream
  Loop,      \* the event loop, as a reader of the store
  Nobody     \* no stream holds the loop

ASSUME LoopAssumption == Loop \in Readers
ASSUME NobodyAssumption == Nobody \notin Streams

VARIABLES stream, holder

streamVars == <<stream, holder>>
allVars == <<vars, stream, holder>>

\* A stream is at "new", "checking", "sleeping", "polling" or "closed"; run is
\* whose events it sends, sent the generator's cursor, got the numbers of the
\* events the client has received, and told the status in the "done" event,
\* "none" before it.
StreamInit ==
  /\ Init
  /\ stream \in [Streams -> {[at |-> "new", run |-> r, sent |-> 0,
                              got |-> <<>>, told |-> "none"] : r \in Runs}]
  /\ holder = Nobody

Close(st) == [st EXCEPT !.at = "closed"]

\* The request: stream_run checks that the run exists.
Open(s) ==
  /\ stream[s].at = "new"
  /\ holder = Nobody
  /\ ReapSelect(Loop)
  /\ holder' = s
  /\ stream' = [stream EXCEPT ![s].at = "checking"]

\* 404, or the response starts and its generator is scheduled.
Check(s) ==
  /\ stream[s].at = "checking"
  /\ Read(Loop)
  /\ holder' = Nobody
  /\ stream' = [stream EXCEPT ![s].at =
       IF db.row[stream[s].run].status = "absent" THEN "closed" ELSE "sleeping"]

Poll(s) ==
  /\ stream[s].at = "sleeping"
  /\ holder = Nobody
  /\ ReapSelect(Loop)
  /\ holder' = s
  /\ stream' = [stream EXCEPT ![s].at = "polling"]

\* Variant with a bug: the slice starts at the event sent last.
UnsentOverlaps(sent, n) ==
  IF sent = 0 THEN [i \in 1..n |-> i] ELSE [i \in 1..(n - sent + 1) |-> sent + i - 1]

\* The numbers of events[sent:], for a list of n events.
Unsent(sent, n) == [i \in 1..(n - sent) |-> sent + i]

\* Variant with a bug: the status is looked at before the new events are sent.
TurnDoneFirst(st, row, n) ==
  IF row.status = "absent" THEN Close(st)
  ELSE IF row.status \in Terminal
       THEN [st EXCEPT !.told = row.status, !.at = "closed"]
       ELSE [st EXCEPT !.got = @ \o Unsent(st.sent, n), !.sent = n,
                       !.at = "sleeping"]

\* One turn of the generator's loop on the snapshot get_job returns: the new
\* events, then "done" if the same snapshot shows a terminal status.
Turn(st, row, n) ==
  IF row.status = "absent" THEN Close(st)
  ELSE [st EXCEPT
          !.got = @ \o Unsent(st.sent, n),
          !.sent = n,
          !.told = IF row.status \in Terminal THEN row.status ELSE "none",
          !.at = IF row.status \in Terminal THEN "closed" ELSE "sleeping"]

Deliver(s) ==
  /\ stream[s].at = "polling"
  /\ Read(Loop)
  /\ holder' = Nobody
  /\ LET r == stream[s].run
     IN  stream' = [stream EXCEPT ![s] = Turn(@, db.row[r], db.events[r])]

\* get_job raises on the loop: the response breaks off.
Break(s) ==
  /\ holder = s
  /\ ReapOneRaises(Loop)
  /\ holder' = Nobody
  /\ stream' = [stream EXCEPT ![s] = Close(@)]

\* The client goes away: the generator is cancelled where it awaits.
Disconnect(s) ==
  /\ stream[s].at = "sleeping"
  /\ stream' = [stream EXCEPT ![s] = Close(@)]
  /\ UNCHANGED <<vars, holder>>

CrashStreams ==
  /\ Crash
  /\ holder' = Nobody
  /\ stream' = [s \in Streams |->
       IF stream[s].at = "new" THEN stream[s] ELSE Close(stream[s])]

\* Everything else in the process, and the loop's own sweep.
Others ==
  /\ \/ \E r \in Runs : Request(r) \/ Worker(r) \/ GrowStale(r)
     \/ \E c \in Readers \ {Loop} : Reader(c)
     \/ ReapOne(Loop)
  /\ UNCHANGED streamVars

Streaming(s) == Open(s) \/ Check(s) \/ Poll(s) \/ Deliver(s) \/ Break(s)

StreamNext ==
  \/ Others
  \/ \E s \in Streams : Streaming(s) \/ Disconnect(s)
  \/ CrashStreams

StreamSpec == StreamInit /\ [][StreamNext]_allVars

\* The threads of RunStore!Fairness, and an event loop that serves every
\* connection in turn; no reader but the streams themselves is relied on.
StreamFairness ==
  /\ \A r \in Runs : /\ WF_allVars(StartJob(r) /\ UNCHANGED streamVars)
                     /\ WF_allVars(Worker(r) /\ UNCHANGED streamVars)
                     /\ WF_allVars(GrowStale(r) /\ UNCHANGED streamVars)
  /\ WF_allVars(ReapOne(Loop) /\ UNCHANGED streamVars)
  /\ \A s \in Streams : /\ WF_allVars(Check(s) \/ Deliver(s))
                        /\ SF_allVars(Open(s) \/ Poll(s))

FairStreamSpec == StreamSpec /\ StreamFairness

-----------------------------------------------------------------------------
\* A client receives the run's events in order, each once, with no gap,
\* however its polls fall between the worker's writes.
InOrderExactlyOnce ==
  \A s \in Streams : \A i \in DOMAIN stream[s].got : stream[s].got[i] = i

\* A client told that the run completed has been sent every decision, and
\* the audit log it can query next is complete.
CompletedMeansAll ==
  \A s \in Streams :
    stream[s].told = "completed" =>
      /\ Len(stream[s].got) = Decisions(stream[s].run)
      /\ disk.audit[stream[s].run] = Decisions(stream[s].run)

\* A connection does not stay open for ever: even if the run's thread died
\* without a word, the stream's own polls reap the run and end the stream.
StreamEnds ==
  \A s \in Streams : stream[s].at \notin {"new", "closed"} ~> stream[s].at = "closed"
=============================================================================
