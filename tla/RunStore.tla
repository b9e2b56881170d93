------------------------------ MODULE RunStore ------------------------------
(***************************************************************************)
(* The SQLite-backed job store of api/jobs.py and the worker thread that   *)
(* runs one reconciliation (_run_pipeline), with the lazy reaper that      *)
(* every read path runs first (_reap_stale_jobs).                          *)
(*                                                                         *)
(* All threads share ONE sqlite3 connection.  A statement takes effect on  *)
(* that connection at once and becomes durable at the next commit, whoever *)
(* issues it; nothing in the code ever rolls back.  So the store has two   *)
(* faces: db, what the connection sees, and disk, what a restart finds.    *)
(* _jobs_lock is held from the first statement to the commit, so one       *)
(* critical section is one step; everything between two critical sections  *)
(* interleaves.                                                            *)
(*                                                                         *)
(* Rows keep what the properties tell apart.  The decisions of run r are   *)
(* numbered 1..Decisions(r), deterministic ones first; events[r] and       *)
(* audit[r] count the rows a run has in job_events and audit_log.          *)
(***************************************************************************)
EXTENDS Integers, FiniteSets

CONSTANTS
  Runs,        \* run ids (uuid4: never reused)
  Readers,     \* threads that serve a read (GET handlers, the event loop)
  Det,         \* Det[r]: records of r the deterministic stage decides
  Agent,       \* Agent[r]: records of r the agent stage decides
  MaxFaults,   \* bound: writes that raise
  MaxCrashes   \* bound: process deaths

ASSUME DetAssumption == Det \in [Runs -> Nat]
ASSUME AgentAssumption == Agent \in [Runs -> Nat]

VARIABLES
  db,          \* the tables as the shared connection sees them
  disk,        \* the tables as last committed
  pc,          \* pc[r]: where the worker thread of run r is
  decided,     \* decided[r]: decisions that thread has made
  reader,      \* reader[c]: the reap sweep of a reading thread
  faults,      \* writes that have raised so far
  crashes      \* process deaths so far

vars == <<db, disk, pc, decided, reader, faults, crashes>>

Decisions(r) == Det[r] + Agent[r]

Status == {"absent", "pending", "running", "completed", "failed"}
Terminal == {"completed", "failed"}
Error == {"none", "timeout", "exception"}

\* A jobs row.  stale: COALESCE(started_at, created_at) has fallen behind
\* the reaper's cutoff.  progress: the event number progress_json describes.
Row == [status: Status, stale: BOOLEAN, progress: Nat,
        results: BOOLEAN, error: Error]

Store == [row: [Runs -> Row], events: [Runs -> Nat], audit: [Runs -> Nat]]

NoRow == [status |-> "absent", stale |-> FALSE, progress |-> 0,
          results |-> FALSE, error |-> "none"]

Empty == [row |-> [r \in Runs |-> NoRow],
          events |-> [r \in Runs |-> 0],
          audit |-> [r \in Runs |-> 0]]

ThreadState == {"unborn", "created", "spawned", "deterministic", "agent",
                "audit", "publish", "failing", "done"}

\* The try block of _run_pipeline: where an exception lands in "failing".
Working == {"deterministic", "agent", "audit", "publish"}

Idle == [at |-> "idle", todo |-> {}]

ReaderState == [at: {"idle", "reaping"}, todo: SUBSET Runs]

TypeOK ==
  /\ db \in Store
  /\ disk \in Store
  /\ pc \in [Runs -> ThreadState]
  /\ decided \in [Runs -> Nat]
  /\ reader \in [Readers -> ReaderState]
  /\ faults \in Nat
  /\ crashes \in Nat

Init ==
  /\ db = Empty
  /\ disk = Empty
  /\ pc = [r \in Runs |-> "unborn"]
  /\ decided = [r \in Runs |-> 0]
  /\ reader = [c \in Readers |-> Idle]
  /\ faults = 0
  /\ crashes = 0

-----------------------------------------------------------------------------
(* Statements: each yields the store one statement later.                  *)

InsertJob(s, r) == [s EXCEPT !.row[r] = [NoRow EXCEPT !.status = "pending"]]

\* UPDATE jobs ... WHERE run_id = r, a no-op when the row is not there.
UpdateJob(s, r, new) ==
  IF s.row[r].status = "absent" THEN s ELSE [s EXCEPT !.row[r] = new]

SetRunning(s, r) ==
  UpdateJob(s, r, [s.row[r] EXCEPT !.status = "running", !.stale = FALSE])

SetCompleted(s, r) ==
  UpdateJob(s, r, [s.row[r] EXCEPT !.status = "completed", !.results = TRUE])

\* Variants with a bug: the results are reset; the audit rows are cleaned up.
SetFailedResets(s, r, why) ==
  UpdateJob(s, r, [s.row[r] EXCEPT !.status = "failed", !.error = why,
                                   !.results = FALSE])

SetFailedCleansUp(s, r, why) ==
  UpdateJob([s EXCEPT !.audit[r] = 0], r,
            [s.row[r] EXCEPT !.status = "failed", !.error = why])

SetFailed(s, r, why) ==
  UpdateJob(s, r, [s.row[r] EXCEPT !.status = "failed", !.error = why])

\* No statement: the clock moves on for a row that is there.
Age(s, r) == UpdateJob(s, r, [s.row[r] EXCEPT !.stale = TRUE])

InsertEvent(s, r) == [s EXCEPT !.events[r] = @ + 1]

\* Variant with a bug: the progress index is counted from one twice.
SetProgressOffByOne(s, r, n) ==
  UpdateJob(s, r, [s.row[r] EXCEPT !.progress = n + 1])

SetProgress(s, r, n) == UpdateJob(s, r, [s.row[r] EXCEPT !.progress = n])

InsertAudit(s, r, n) == [s EXCEPT !.audit[r] = @ + n]

-----------------------------------------------------------------------------
(* Transactions.                                                           *)

\* The critical section ran to its commit, which also makes durable
\* whatever an earlier failed section left on the connection.
Commit(s) ==
  /\ db' = s
  /\ disk' = s
  /\ UNCHANGED faults

\* A statement or the commit raised.  partial holds the states the section
\* can have left on the connection; SQLite keeps the transaction open or,
\* for some errors, rolls it back by itself.
Raise(partial) ==
  /\ faults < MaxFaults
  /\ faults' = faults + 1
  /\ db' \in partial \cup {disk}
  /\ UNCHANGED disk

Goto(r, state) == pc' = [pc EXCEPT ![r] = state]

-----------------------------------------------------------------------------
(* POST /runs: create_job, then start_job, in one request handler.         *)

CreateJob(r) ==
  /\ pc[r] = "unborn"
  /\ Commit(InsertJob(db, r))
  /\ Goto(r, "created")
  /\ UNCHANGED <<decided, reader, crashes>>

\* The insert raises: the client gets an error and no thread is started,
\* but the row may stay on the connection.
CreateJobRaises(r) ==
  /\ pc[r] = "unborn"
  /\ Raise({db, InsertJob(db, r)})
  /\ Goto(r, "done")
  /\ UNCHANGED <<decided, reader, crashes>>

StartJob(r) ==
  /\ pc[r] = "created"
  /\ Goto(r, "spawned")
  /\ UNCHANGED <<db, disk, decided, reader, faults, crashes>>

-----------------------------------------------------------------------------
(* _run_pipeline, in the worker thread of r.                               *)

BeginRun(r) ==
  /\ pc[r] = "spawned"
  /\ Commit(SetRunning(db, r))
  /\ Goto(r, "deterministic")
  /\ UNCHANGED <<decided, reader, crashes>>

BeginRunRaises(r) ==
  /\ pc[r] = "spawned"
  /\ Raise({db, SetRunning(db, r)})
  /\ Goto(r, "failing")
  /\ UNCHANGED <<decided, reader, crashes>>

\* The next decision is made, the deterministic ones first, then the
\* agent's; _append_event reports it.
Deciding(r) ==
  \/ pc[r] = "deterministic" /\ decided[r] < Det[r]
  \/ pc[r] = "agent" /\ decided[r] < Decisions(r)

Decide(r) == decided' = [decided EXCEPT ![r] = @ + 1]

AppendEvent(r) ==
  /\ Deciding(r)
  /\ Decide(r)
  /\ Commit(SetProgress(InsertEvent(db, r), r, decided[r] + 1))
  /\ UNCHANGED <<pc, reader, crashes>>

AppendEventRaises(r) ==
  /\ Deciding(r)
  /\ Decide(r)
  /\ LET inserted == InsertEvent(db, r)
     IN  Raise({db, inserted, SetProgress(inserted, r, decided[r] + 1)})
  /\ Goto(r, "failing")
  /\ UNCHANGED <<reader, crashes>>

\* Between the loops: usage snapshots, annotation; no store access.
BeginAgentStage(r) ==
  /\ pc[r] = "deterministic"
  /\ decided[r] = Det[r]
  /\ Goto(r, "agent")
  /\ UNCHANGED <<db, disk, decided, reader, faults, crashes>>

\* Variant with a bug: the run is published and its audit never written.
EndAgentStageUnaudited(r) ==
  /\ pc[r] = "agent"
  /\ decided[r] = Decisions(r)
  /\ Goto(r, "publish")
  /\ UNCHANGED <<db, disk, decided, reader, faults, crashes>>

EndAgentStage(r) ==
  /\ pc[r] = "agent"
  /\ decided[r] = Decisions(r)
  /\ Goto(r, "audit")
  /\ UNCHANGED <<db, disk, decided, reader, faults, crashes>>

\* Variant with a bug: one commit per row instead of one for the run.
RecordAuditRowByRow(r) ==
  /\ pc[r] = "audit"
  /\ Commit(InsertAudit(db, r, 1))
  /\ Goto(r, IF db.audit[r] + 1 < decided[r] THEN "audit" ELSE "publish")
  /\ UNCHANGED <<decided, reader, crashes>>

RecordAuditEntries(r) ==
  /\ pc[r] = "audit"
  /\ Commit(InsertAudit(db, r, decided[r]))
  /\ Goto(r, "publish")
  /\ UNCHANGED <<decided, reader, crashes>>

RecordAuditEntriesRaises(r) ==
  /\ pc[r] = "audit"
  /\ Raise({InsertAudit(db, r, n) : n \in 0..decided[r]})
  /\ Goto(r, "failing")
  /\ UNCHANGED <<decided, reader, crashes>>

CompleteRun(r) ==
  /\ pc[r] = "publish"
  /\ Commit(SetCompleted(db, r))
  /\ Goto(r, "done")
  /\ UNCHANGED <<decided, reader, crashes>>

CompleteRunRaises(r) ==
  /\ pc[r] = "publish"
  /\ Raise({db, SetCompleted(db, r)})
  /\ Goto(r, "failing")
  /\ UNCHANGED <<decided, reader, crashes>>

\* Anything else in the try block raises: loading the data, a merchant
\* lookup, the LLM client, an argument of the wrong shape, the metrics.
PipelineRaises(r) ==
  /\ pc[r] \in Working
  /\ Goto(r, "failing")
  /\ UNCHANGED <<db, disk, decided, reader, faults, crashes>>

RecordFailure(r) ==
  /\ pc[r] = "failing"
  /\ Commit(SetFailed(db, r, "exception"))
  /\ Goto(r, "done")
  /\ UNCHANGED <<decided, reader, crashes>>

\* The write that records the failure fails too: printed and swallowed.
RecordFailureRaises(r) ==
  /\ pc[r] = "failing"
  /\ Raise({db, SetFailed(db, r, "exception")})
  /\ Goto(r, "done")
  /\ UNCHANGED <<decided, reader, crashes>>

-----------------------------------------------------------------------------
(* Reads: get_job and list_jobs sweep for stale jobs before they read.     *)

\* Variant with a bug: a run that never started is immune to the reaper.
StaleRunningOnly(s) == {r \in Runs : s.row[r].status = "running" /\ s.row[r].stale}

Stale(s) == {r \in Runs : s.row[r].status \in {"pending", "running"} /\ s.row[r].stale}

\* The SELECT, under the lock; the lock is released with the ids in hand.
ReapSelect(c) ==
  /\ reader[c].at = "idle"
  /\ reader' = [reader EXCEPT ![c] = [at |-> "reaping", todo |-> Stale(db)]]
  /\ UNCHANGED <<db, disk, pc, decided, faults, crashes>>

\* One UPDATE per id, each under the lock again, whatever the row says now.
ReapOne(c) ==
  \E r \in reader[c].todo :
    /\ Commit(SetFailed(db, r, "timeout"))
    /\ reader' = [reader EXCEPT ![c].todo = @ \ {r}]
    /\ UNCHANGED <<pc, decided, crashes>>

\* The exception escapes get_job: the request fails.
ReapOneRaises(c) ==
  \E r \in reader[c].todo :
    /\ Raise({db, SetFailed(db, r, "timeout")})
    /\ reader' = [reader EXCEPT ![c] = Idle]
    /\ UNCHANGED <<pc, decided, crashes>>

\* The row, and the events with it, are read under one lock.
Read(c) ==
  /\ reader[c].at = "reaping"
  /\ reader[c].todo = {}
  /\ reader' = [reader EXCEPT ![c] = Idle]
  /\ UNCHANGED <<db, disk, pc, decided, faults, crashes>>

-----------------------------------------------------------------------------
(* The environment.                                                        *)

\* More than STALE_JOB_TIMEOUT_SECONDS have passed since r was stamped.
GrowStale(r) ==
  /\ db.row[r].status \in {"pending", "running"}
  /\ ~db.row[r].stale
  /\ db' = Age(db, r)
  /\ disk' = Age(disk, r)
  /\ UNCHANGED <<pc, decided, reader, faults, crashes>>

\* The process dies and starts again: threads (daemons) and the open
\* transaction are gone, no run is resumed.
Crash ==
  /\ crashes < MaxCrashes
  /\ crashes' = crashes + 1
  /\ db' = disk
  /\ pc' = [r \in Runs |-> IF pc[r] = "unborn" THEN "unborn" ELSE "done"]
  /\ reader' = [c \in Readers |-> Idle]
  /\ UNCHANGED <<disk, decided, faults>>

-----------------------------------------------------------------------------
Worker(r) ==
  \/ BeginRun(r) \/ BeginRunRaises(r)
  \/ AppendEvent(r) \/ AppendEventRaises(r)
  \/ BeginAgentStage(r) \/ EndAgentStage(r)
  \/ RecordAuditEntries(r) \/ RecordAuditEntriesRaises(r)
  \/ CompleteRun(r) \/ CompleteRunRaises(r)
  \/ PipelineRaises(r)
  \/ RecordFailure(r) \/ RecordFailureRaises(r)

Request(r) == CreateJob(r) \/ CreateJobRaises(r) \/ StartJob(r)

Reader(c) == ReapSelect(c) \/ ReapOne(c) \/ ReapOneRaises(c) \/ Read(c)

Next ==
  \/ \E r \in Runs : Request(r) \/ Worker(r) \/ GrowStale(r)
  \/ \E c \in Readers : Reader(c)
  \/ Crash

Spec == Init /\ [][Next]_vars

\* What the operating system and the users owe: threads are scheduled (every
\* call the worker makes returns or raises: the LLM clients have timeouts and
\* bounded retries), time passes, and somebody keeps asking about the runs.
Fairness ==
  /\ \A r \in Runs : WF_vars(StartJob(r)) /\ WF_vars(Worker(r))
                     /\ WF_vars(GrowStale(r))
  /\ \A c \in Readers : WF_vars(Reader(c))

FairSpec == Spec /\ Fairness

-----------------------------------------------------------------------------
(* Properties.                                                             *)

\* Results are never visible, to any reader and after any crash or failed
\* write, before every decision of the run is durably in the audit log and
\* in the event log (audit write before _update("completed"), jobs.py:443).
AuditedBeforePublished ==
  \A r \in Runs :
    db.row[r].results \/ disk.row[r].results =>
      disk.audit[r] = Decisions(r) /\ disk.events[r] = Decisions(r)

\* The progress a client is shown describes an event that is in the log, and
\* lags the log by at most the one event whose transaction failed half-way
\* (_append_event writes both in one transaction).
ProgressFollowsEvents ==
  \A r \in Runs : \A s \in {db, disk} :
    s.row[r].progress \in {s.events[r], s.events[r] - 1}

\* "Every decision this run made about every transaction": a run is either
\* wholly in the audit log or not in it at all.
AuditAllOrNothing ==
  \A r \in Runs : disk.audit[r] \in {0, Decisions(r)}

\* Whatever instants the process dies at, and however late the thread of a
\* reaped run is, that alone never leaves a part of a run in the audit log
\* (_record_audit_entries commits once).
CrashesTearNothing == faults = 0 => AuditAllOrNothing

\* Nobody is left who could touch the row of this completed run: its thread is
\* over, and no sweep picked it while it was still running.
OutOfReach(r) ==
  /\ db.row[r].status = "completed" /\ disk.row[r].status = "completed"
  /\ pc[r] = "done"
  /\ \A c \in Readers : r \notin reader[c].todo

\* What has become durable stays: no crash, reap, failed write or late thread
\* takes back an event, an audit row or the results of a run, nothing is added
\* to the history of a run whose results are out, and 'completed' is final once
\* no sweep holds the id ("a completed job is never reaped regardless of age").
HistoryIsDurable ==
  [][\A r \in Runs :
       /\ disk'.events[r] >= disk.events[r]
       /\ disk'.audit[r] >= disk.audit[r]
       /\ disk.row[r].results =>
            /\ disk'.row[r].results
            /\ disk'.events[r] = disk.events[r]
            /\ disk'.audit[r] = disk.audit[r]
       /\ OutOfReach(r) => OutOfReach(r)']_vars

Active(r) == db.row[r].status \in {"pending", "running"}

\* No run stays pending or running for ever, whatever killed its thread:
\* death of the process, an exception, a failure that could not be recorded.
Settles == \A r \in Runs : Active(r) ~> []~Active(r)

\* "A completed job is never reaped regardless of age."
CompletedIsFinal ==
  [][\A r \in Runs : db.row[r].status = "completed" =>
                       db'.row[r].status = "completed"]_vars
=============================================================================
