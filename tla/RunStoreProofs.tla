--------------------------- MODULE RunStoreProofs ---------------------------
(***************************************************************************)
(* Proofs about RunStore, for every set of runs and readers, every number  *)
(* of decisions, and any number of failed writes and crashes, and about    *)
(* the event stream over it.                                               *)
(***************************************************************************)
EXTENDS RunStoreRefinement, EventStream, TLAPS

USE DetAssumption, AgentAssumption

LEMMA DecisionsNat ==
  ASSUME NEW r \in Runs
  PROVE  Decisions(r) \in Nat /\ Det[r] \in Nat /\ Det[r] <= Decisions(r)
BY DEF Decisions

-----------------------------------------------------------------------------
(* The statements keep the tables well-formed, and touch only their run.   *)

LEMMA StatementTypes ==
  ASSUME NEW s \in Store, NEW r \in Runs, NEW n \in Nat, NEW why \in Error
  PROVE  /\ InsertJob(s, r) \in Store
         /\ SetRunning(s, r) \in Store
         /\ SetCompleted(s, r) \in Store
         /\ SetFailed(s, r, why) \in Store
         /\ Age(s, r) \in Store
         /\ InsertEvent(s, r) \in Store
         /\ SetProgress(s, r, n) \in Store
         /\ InsertAudit(s, r, n) \in Store
<1>1. s.row[r] \in Row
  BY DEF Store
<1>2. \A new \in Row : UpdateJob(s, r, new) \in Store
  BY DEF Store, UpdateJob
<1>3. SetRunning(s, r) \in Store
  BY <1>1, <1>2 DEF SetRunning, Row, Status
<1>4. SetCompleted(s, r) \in Store
  BY <1>1, <1>2 DEF SetCompleted, Row, Status
<1>5. SetFailed(s, r, why) \in Store
  BY <1>1, <1>2 DEF SetFailed, Row, Status, Error
<1>6. SetProgress(s, r, n) \in Store
  BY <1>1, <1>2 DEF SetProgress, Row
<1>7. InsertJob(s, r) \in Store
  BY DEF InsertJob, NoRow, Store, Row, Status, Error
<1>8. InsertEvent(s, r) \in Store /\ InsertAudit(s, r, n) \in Store
  BY DEF InsertEvent, InsertAudit, Store
<1>9. Age(s, r) \in Store
  BY <1>1, <1>2 DEF Age, Row
<1> QED
  BY <1>3, <1>4, <1>5, <1>6, <1>7, <1>8, <1>9

-----------------------------------------------------------------------------
(* Type correctness: every table, thread and sweep keeps its shape.        *)

LEMMA InitTypeOK == Init => TypeOK
BY DEF Init, TypeOK, Empty, Store, NoRow, Row, Status, Error, ThreadState,
       Idle, ReaderState

LEMMA CommitType ==
  ASSUME TypeOK, NEW s \in Store, Commit(s)
  PROVE  db' \in Store /\ disk' \in Store /\ faults' \in Nat
BY DEF Commit, TypeOK

LEMMA RaiseType ==
  ASSUME TypeOK, NEW partial \in SUBSET Store, Raise(partial)
  PROVE  db' \in Store /\ disk' \in Store /\ faults' \in Nat
BY DEF Raise, TypeOK

LEMMA GotoType ==
  ASSUME TypeOK, NEW r \in Runs, NEW state \in ThreadState, Goto(r, state)
  PROVE  pc' \in [Runs -> ThreadState]
BY DEF Goto, TypeOK

LEMMA NextTypeOK == TypeOK /\ [Next]_vars => TypeOK'
<1> SUFFICES ASSUME TypeOK, [Next]_vars PROVE TypeOK'
  OBVIOUS
<1> USE DEF TypeOK
<1>1. ASSUME NEW r \in Runs, Request(r) PROVE TypeOK'
  <2>1. InsertJob(db, r) \in Store
    BY StatementTypes DEF Error
  <2>2. CASE CreateJob(r)
    BY <2>1, <2>2, CommitType, GotoType DEF CreateJob, ThreadState
  <2>3. CASE CreateJobRaises(r)
    <3>1. {db, InsertJob(db, r)} \in SUBSET Store
      BY <2>1
    <3> QED
      BY <2>3, <3>1, RaiseType, GotoType DEF CreateJobRaises, ThreadState
  <2>4. CASE StartJob(r)
    BY <2>4, GotoType DEF StartJob, ThreadState
  <2> QED
    BY <1>1, <2>2, <2>3, <2>4 DEF Request
<1>2. ASSUME NEW r \in Runs, Worker(r) PROVE TypeOK'
  <2>1. /\ SetRunning(db, r) \in Store
        /\ SetCompleted(db, r) \in Store
        /\ SetFailed(db, r, "exception") \in Store
        /\ InsertEvent(db, r) \in Store
        /\ \A n \in Nat : InsertAudit(db, r, n) \in Store
    BY StatementTypes DEF Error
  <2>2. SetProgress(InsertEvent(db, r), r, decided[r] + 1) \in Store
    BY <2>1, StatementTypes DEF Error
  <2>3. \A n \in 0..decided[r] : n \in Nat
    OBVIOUS
  <2>4. CASE BeginRun(r)
    BY <2>1, <2>4, CommitType, GotoType DEF BeginRun, ThreadState
  <2>5. CASE BeginRunRaises(r)
    <3>1. {db, SetRunning(db, r)} \in SUBSET Store
      BY <2>1
    <3> QED
      BY <2>5, <3>1, RaiseType, GotoType DEF BeginRunRaises, ThreadState
  <2>6. CASE AppendEvent(r)
    BY <2>2, <2>6, CommitType DEF AppendEvent, Decide
  <2>7. CASE AppendEventRaises(r)
    <3>1. {db, InsertEvent(db, r),
           SetProgress(InsertEvent(db, r), r, decided[r] + 1)} \in SUBSET Store
      BY <2>1, <2>2
    <3>2. Goto(r, "failing") /\ Decide(r) /\ UNCHANGED <<reader, crashes>>
      BY <2>7 DEF AppendEventRaises
    <3>3. Raise({db, InsertEvent(db, r),
                 SetProgress(InsertEvent(db, r), r, decided[r] + 1)})
      BY <2>7 DEF AppendEventRaises
    <3>4. db' \in Store /\ disk' \in Store /\ faults' \in Nat
      BY <3>1, <3>3, RaiseType
    <3> QED
      BY <3>2, <3>4, GotoType DEF Decide, ThreadState
  <2>8. CASE BeginAgentStage(r)
    BY <2>8, GotoType DEF BeginAgentStage, ThreadState
  <2>9. CASE EndAgentStage(r)
    BY <2>9, GotoType DEF EndAgentStage, ThreadState
  <2>10. CASE RecordAuditEntries(r)
    BY <2>1, <2>10, CommitType, GotoType DEF RecordAuditEntries, ThreadState
  <2>11. CASE RecordAuditEntriesRaises(r)
    <3>1. {InsertAudit(db, r, n) : n \in 0..decided[r]} \in SUBSET Store
      BY <2>1, <2>3
    <3> QED
      BY <2>11, <3>1, RaiseType, GotoType
         DEF RecordAuditEntriesRaises, ThreadState
  <2>12. CASE CompleteRun(r)
    BY <2>1, <2>12, CommitType, GotoType DEF CompleteRun, ThreadState
  <2>13. CASE CompleteRunRaises(r)
    <3>1. {db, SetCompleted(db, r)} \in SUBSET Store
      BY <2>1
    <3> QED
      BY <2>13, <3>1, RaiseType, GotoType DEF CompleteRunRaises, ThreadState
  <2>14. CASE PipelineRaises(r)
    BY <2>14, GotoType DEF PipelineRaises, ThreadState
  <2>15. CASE RecordFailure(r)
    BY <2>1, <2>15, CommitType, GotoType DEF RecordFailure, ThreadState
  <2>16. CASE RecordFailureRaises(r)
    <3>1. {db, SetFailed(db, r, "exception")} \in SUBSET Store
      BY <2>1
    <3> QED
      BY <2>16, <3>1, RaiseType, GotoType DEF RecordFailureRaises, ThreadState
  <2> QED
    BY <1>2, <2>4, <2>5, <2>6, <2>7, <2>8, <2>9, <2>10, <2>11, <2>12, <2>13,
       <2>14, <2>15, <2>16 DEF Worker
<1>3. ASSUME NEW r \in Runs, GrowStale(r) PROVE TypeOK'
  <2>1. Age(db, r) \in Store /\ Age(disk, r) \in Store
    BY StatementTypes DEF Error
  <2> QED
    BY <1>3, <2>1 DEF GrowStale
<1>4. ASSUME NEW c \in Readers, Reader(c) PROVE TypeOK'
  <2>1. \A r \in Runs : SetFailed(db, r, "timeout") \in Store
    BY StatementTypes DEF Error
  <2>2. reader[c].todo \in SUBSET Runs /\ Idle \in ReaderState
    BY DEF ReaderState, Idle
  <2>3. CASE ReapSelect(c)
    BY <2>3 DEF ReapSelect, Stale, ReaderState
  <2>4. CASE ReapOne(c)
    <3>1. PICK r \in reader[c].todo :
            /\ Commit(SetFailed(db, r, "timeout"))
            /\ reader' = [reader EXCEPT ![c].todo = @ \ {r}]
            /\ UNCHANGED <<pc, decided, crashes>>
      BY <2>4 DEF ReapOne
    <3>2. SetFailed(db, r, "timeout") \in Store
      BY <2>1, <2>2
    <3> QED
      BY <3>1, <3>2, CommitType DEF ReaderState
  <2>5. CASE ReapOneRaises(c)
    <3>1. PICK r \in reader[c].todo :
            /\ Raise({db, SetFailed(db, r, "timeout")})
            /\ reader' = [reader EXCEPT ![c] = Idle]
            /\ UNCHANGED <<pc, decided, crashes>>
      BY <2>5 DEF ReapOneRaises
    <3>2. {db, SetFailed(db, r, "timeout")} \in SUBSET Store
      BY <2>1, <2>2
    <3> QED
      BY <2>2, <3>1, <3>2, RaiseType
  <2>6. CASE Read(c)
    BY <2>2, <2>6 DEF Read
  <2> QED
    BY <1>4, <2>3, <2>4, <2>5, <2>6 DEF Reader
<1>5. CASE Crash
  BY <1>5 DEF Crash, Idle, ReaderState, ThreadState
<1>6. CASE UNCHANGED vars
  BY <1>6 DEF vars
<1> QED
  BY <1>1, <1>2, <1>3, <1>4, <1>5, <1>6 DEF Next

\* Every reachable state of the store, its threads and its readers is well
\* formed: no statement of api/jobs.py writes a value of the wrong kind.
THEOREM TypeCorrect == Spec => []TypeOK
BY InitTypeOK, NextTypeOK, PTL DEF Spec
-----------------------------------------------------------------------------
(***************************************************************************)
(* No results without a complete, durable audit log.                       *)
(*                                                                         *)
(* AuditedBeforePublished alone is not inductive: a commit by any thread   *)
(* makes durable what the connection holds, and a rollback takes it back,  *)
(* so the invariant says how far the connection may be ahead of the disk   *)
(* (Ahead) and ties both to the place of the run's own thread (InStep).    *)
(***************************************************************************)

Unaudited == {"unborn", "created", "spawned", "deterministic", "agent", "audit"}

\* The connection is never behind the disk, and never over the full count.
Ahead(r) ==
  /\ disk.events[r] <= db.events[r] /\ db.events[r] <= Decisions(r)
  /\ disk.audit[r] <= db.audit[r] /\ db.audit[r] <= Decisions(r)
  /\ disk.row[r].results => db.row[r].results

\* While the thread of r is at work, the event log is exactly what it has
\* decided, its results are not out, and the audit log is empty until its
\* one write and then full.
InStep(r) ==
  /\ pc[r] \in Unaudited \cup {"publish"} =>
       /\ disk.events[r] = decided[r]
       /\ db.events[r] = decided[r]
       /\ ~db.row[r].results /\ ~disk.row[r].results
  /\ pc[r] \in Unaudited => db.audit[r] = 0
  /\ pc[r] \in {"unborn", "created", "spawned"} => decided[r] = 0
  /\ pc[r] = "deterministic" => decided[r] <= Det[r]
  /\ pc[r] = "agent" => decided[r] <= Decisions(r)
  /\ pc[r] \in {"audit", "publish"} => decided[r] = Decisions(r)
  /\ pc[r] = "publish" => disk.audit[r] = Decisions(r)

Audited(r) ==
  db.row[r].results \/ disk.row[r].results =>
    disk.audit[r] = Decisions(r) /\ disk.events[r] = Decisions(r)

RunInv(r) == Ahead(r) /\ InStep(r) /\ Audited(r)

IInv == TypeOK /\ \A r \in Runs : RunInv(r)

\* Two stores agree on the history of run q.
Same(s, t, q) ==
  /\ s.events[q] = t.events[q]
  /\ s.audit[q] = t.audit[q]
  /\ s.row[q].results = t.row[q].results

\* What each statement does to the history of its own run, and that it does
\* nothing to another's.
LEMMA StatementEffects ==
  ASSUME NEW s \in Store, NEW r \in Runs, NEW n \in Nat, NEW why \in Error
  PROVE  /\ InsertJob(s, r).events = s.events
         /\ InsertJob(s, r).audit = s.audit
         /\ InsertJob(s, r).row[r].results = FALSE
         /\ Same(SetRunning(s, r), s, r)
         /\ SetCompleted(s, r).events = s.events
         /\ SetCompleted(s, r).audit = s.audit
         /\ Same(SetFailed(s, r, why), s, r)
         /\ Same(Age(s, r), s, r)
         /\ Same(SetProgress(s, r, n), s, r)
         /\ InsertEvent(s, r).events[r] = s.events[r] + 1
         /\ InsertEvent(s, r).audit = s.audit
         /\ InsertEvent(s, r).row = s.row
         /\ InsertAudit(s, r, n).audit[r] = s.audit[r] + n
         /\ InsertAudit(s, r, n).events = s.events
         /\ InsertAudit(s, r, n).row = s.row
         /\ \A q \in Runs \ {r} :
              /\ Same(InsertJob(s, r), s, q)
              /\ Same(SetRunning(s, r), s, q)
              /\ Same(SetCompleted(s, r), s, q)
              /\ Same(SetFailed(s, r, why), s, q)
              /\ Same(Age(s, r), s, q)
              /\ Same(SetProgress(s, r, n), s, q)
              /\ Same(InsertEvent(s, r), s, q)
              /\ Same(InsertAudit(s, r, n), s, q)
<1>1. s.row[r] \in Row
  BY DEF Store
<1>2. ASSUME NEW new \in Row
      PROVE  /\ UpdateJob(s, r, new).events = s.events
             /\ UpdateJob(s, r, new).audit = s.audit
             /\ new.results = s.row[r].results =>
                  Same(UpdateJob(s, r, new), s, r)
             /\ \A q \in Runs \ {r} : Same(UpdateJob(s, r, new), s, q)
  BY <1>1 DEF UpdateJob, Store, Row, Same
<1> DEFINE running == [s.row[r] EXCEPT !.status = "running", !.stale = FALSE]
           completed == [s.row[r] EXCEPT !.status = "completed", !.results = TRUE]
           failed == [s.row[r] EXCEPT !.status = "failed", !.error = why]
           aged == [s.row[r] EXCEPT !.stale = TRUE]
           progressed == [s.row[r] EXCEPT !.progress = n]
<1>3. /\ running \in Row /\ completed \in Row /\ failed \in Row
      /\ aged \in Row /\ progressed \in Row
  BY <1>1 DEF Row, Status, Error
<1>4. /\ running.results = s.row[r].results
      /\ failed.results = s.row[r].results
      /\ aged.results = s.row[r].results
      /\ progressed.results = s.row[r].results
  BY <1>1 DEF Row
<1>5. /\ Same(SetRunning(s, r), s, r)
      /\ \A q \in Runs \ {r} : Same(SetRunning(s, r), s, q)
  BY <1>2, <1>3, <1>4 DEF SetRunning
<1>6. /\ SetCompleted(s, r).events = s.events
      /\ SetCompleted(s, r).audit = s.audit
      /\ \A q \in Runs \ {r} : Same(SetCompleted(s, r), s, q)
  BY <1>2, <1>3 DEF SetCompleted
<1>7. /\ Same(SetFailed(s, r, why), s, r)
      /\ \A q \in Runs \ {r} : Same(SetFailed(s, r, why), s, q)
  BY <1>2, <1>3, <1>4 DEF SetFailed
<1>8. /\ Same(Age(s, r), s, r)
      /\ \A q \in Runs \ {r} : Same(Age(s, r), s, q)
  BY <1>2, <1>3, <1>4 DEF Age
<1>9. /\ Same(SetProgress(s, r, n), s, r)
      /\ \A q \in Runs \ {r} : Same(SetProgress(s, r, n), s, q)
  BY <1>2, <1>3, <1>4 DEF SetProgress
<1>10. /\ InsertJob(s, r).events = s.events
       /\ InsertJob(s, r).audit = s.audit
       /\ InsertJob(s, r).row[r].results = FALSE
       /\ \A q \in Runs \ {r} : Same(InsertJob(s, r), s, q)
  BY DEF InsertJob, NoRow, Store, Same
<1>11. /\ InsertEvent(s, r).events[r] = s.events[r] + 1
       /\ InsertEvent(s, r).audit = s.audit
       /\ InsertEvent(s, r).row = s.row
       /\ \A q \in Runs \ {r} : Same(InsertEvent(s, r), s, q)
  BY DEF InsertEvent, Store, Same
<1>12. /\ InsertAudit(s, r, n).audit[r] = s.audit[r] + n
       /\ InsertAudit(s, r, n).events = s.events
       /\ InsertAudit(s, r, n).row = s.row
       /\ \A q \in Runs \ {r} : Same(InsertAudit(s, r, n), s, q)
  BY DEF InsertAudit, Store, Same
<1> QED
  BY <1>5, <1>6, <1>7, <1>8, <1>9, <1>10, <1>11, <1>12

\* Two stores show the same of run q.
Alike(s, t, q) ==
  /\ Same(s, t, q)
  /\ s.row[q].status = t.row[q].status
  /\ s.row[q].progress = t.row[q].progress

\* What each statement does to the row of its own run, and that it does
\* nothing to another's.
LEMMA RowEffects ==
  ASSUME NEW s \in Store, NEW r \in Runs, NEW n \in Nat, NEW why \in Error
  PROVE  /\ InsertJob(s, r).row[r].status = "pending"
         /\ InsertJob(s, r).row[r].progress = 0
         /\ SetRunning(s, r).row[r].progress = s.row[r].progress
         /\ s.row[r].status # "absent" =>
              /\ SetRunning(s, r).row[r].status = "running"
              /\ SetCompleted(s, r).row[r].status = "completed"
              /\ SetCompleted(s, r).row[r].results
              /\ SetCompleted(s, r).row[r].progress = s.row[r].progress
              /\ SetFailed(s, r, why).row[r].status = "failed"
              /\ SetProgress(s, r, n).row[r].progress = n
         /\ s.row[r].status = "absent" => SetFailed(s, r, why) = s
         /\ SetFailed(s, r, why).row[r].progress = s.row[r].progress
         /\ SetProgress(s, r, n).row[r].status = s.row[r].status
         /\ Alike(Age(s, r), s, r)
         /\ \A q \in Runs \ {r} :
              /\ Alike(InsertJob(s, r), s, q)
              /\ Alike(SetRunning(s, r), s, q)
              /\ Alike(SetCompleted(s, r), s, q)
              /\ Alike(SetFailed(s, r, why), s, q)
              /\ Alike(Age(s, r), s, q)
              /\ Alike(SetProgress(s, r, n), s, q)
              /\ Alike(InsertEvent(s, r), s, q)
              /\ Alike(InsertAudit(s, r, n), s, q)
<1>1. s.row \in [Runs -> Row] /\ s.row[r] \in Row
  BY DEF Store
<1>2. ASSUME NEW new \in Row
      PROVE  /\ s.row[r].status = "absent" => UpdateJob(s, r, new) = s
             /\ s.row[r].status # "absent" => UpdateJob(s, r, new).row[r] = new
             /\ \A q \in Runs \ {r} : UpdateJob(s, r, new).row[q] = s.row[q]
  BY <1>1 DEF UpdateJob, Store
<1> DEFINE running == [s.row[r] EXCEPT !.status = "running", !.stale = FALSE]
           completed == [s.row[r] EXCEPT !.status = "completed", !.results = TRUE]
           failed == [s.row[r] EXCEPT !.status = "failed", !.error = why]
           aged == [s.row[r] EXCEPT !.stale = TRUE]
           progressed == [s.row[r] EXCEPT !.progress = n]
<1>3. /\ running \in Row /\ completed \in Row /\ failed \in Row
      /\ aged \in Row /\ progressed \in Row
  BY <1>1 DEF Row, Status, Error
<1>4. /\ running.status = "running" /\ completed.status = "completed"
      /\ failed.status = "failed" /\ aged.status = s.row[r].status
      /\ progressed.status = s.row[r].status
      /\ running.progress = s.row[r].progress
      /\ completed.progress = s.row[r].progress
      /\ failed.progress = s.row[r].progress
      /\ aged.progress = s.row[r].progress
      /\ progressed.progress = n
  BY <1>1 DEF Row
<1>5. completed.results
  BY <1>1 DEF Row
<1> HIDE DEF running, completed, failed, aged, progressed
<1>6. /\ SetRunning(s, r) = UpdateJob(s, r, running)
      /\ SetCompleted(s, r) = UpdateJob(s, r, completed)
      /\ SetFailed(s, r, why) = UpdateJob(s, r, failed)
      /\ Age(s, r) = UpdateJob(s, r, aged)
      /\ SetProgress(s, r, n) = UpdateJob(s, r, progressed)
  BY DEF SetRunning, SetCompleted, SetFailed, Age, SetProgress,
         running, completed, failed, aged, progressed
<1>7. /\ InsertJob(s, r).row[r].status = "pending"
      /\ InsertJob(s, r).row[r].progress = 0
      /\ \A q \in Runs \ {r} : InsertJob(s, r).row[q] = s.row[q]
  BY <1>1 DEF InsertJob, NoRow
<1>8. /\ InsertEvent(s, r).row = s.row
      /\ InsertAudit(s, r, n).row = s.row
  BY StatementEffects
<1>9. /\ SetRunning(s, r).row[r].progress = s.row[r].progress
      /\ s.row[r].status # "absent" =>
           SetRunning(s, r).row[r].status = "running"
  BY <1>2, <1>3, <1>4, <1>6
<1>10. s.row[r].status # "absent" =>
         /\ SetCompleted(s, r).row[r].status = "completed"
         /\ SetCompleted(s, r).row[r].progress = s.row[r].progress
  BY <1>2, <1>3, <1>4, <1>6
<1>11. s.row[r].status # "absent" => SetCompleted(s, r).row[r].results
  BY <1>2, <1>3, <1>5, <1>6
<1>12. /\ s.row[r].status # "absent" =>
            SetFailed(s, r, why).row[r].status = "failed"
       /\ s.row[r].status = "absent" => SetFailed(s, r, why) = s
       /\ SetFailed(s, r, why).row[r].progress = s.row[r].progress
  BY <1>2, <1>3, <1>4, <1>6
<1>13. /\ s.row[r].status # "absent" => SetProgress(s, r, n).row[r].progress = n
       /\ SetProgress(s, r, n).row[r].status = s.row[r].status
  BY <1>2, <1>3, <1>4, <1>6
<1>14. Alike(Age(s, r), s, r)
  BY <1>2, <1>3, <1>4, <1>6, StatementEffects DEF Alike
<1>15. ASSUME NEW q \in Runs \ {r}
       PROVE  /\ Alike(InsertJob(s, r), s, q)
              /\ Alike(SetRunning(s, r), s, q)
              /\ Alike(SetCompleted(s, r), s, q)
              /\ Alike(SetFailed(s, r, why), s, q)
              /\ Alike(Age(s, r), s, q)
              /\ Alike(SetProgress(s, r, n), s, q)
              /\ Alike(InsertEvent(s, r), s, q)
              /\ Alike(InsertAudit(s, r, n), s, q)
  <2>1. /\ SetRunning(s, r).row[q] = s.row[q]
        /\ SetCompleted(s, r).row[q] = s.row[q]
        /\ SetFailed(s, r, why).row[q] = s.row[q]
        /\ Age(s, r).row[q] = s.row[q]
        /\ SetProgress(s, r, n).row[q] = s.row[q]
    BY <1>2, <1>3, <1>6
  <2> QED
    BY <1>7, <1>8, <2>1, StatementEffects DEF Alike
<1> QED
  BY <1>7, <1>9, <1>10, <1>11, <1>12, <1>13, <1>14, <1>15

\* How one step can treat the history of a run: leave it alone, make durable
\* what the connection holds, or roll the connection back to the disk.
Kept(q) ==
  \/ Same(db', db, q) /\ Same(disk', disk, q)
  \/ Same(db', db, q) /\ Same(disk', db, q)
  \/ Same(db', disk, q) /\ Same(disk', disk, q)

LEMMA CommitKeeps ==
  ASSUME NEW s, NEW q \in Runs, Commit(s), Same(s, db, q)
  PROVE  Kept(q)
BY DEF Commit, Kept, Same

LEMMA RaiseKeeps ==
  ASSUME NEW partial, NEW q \in Runs, Raise(partial),
         \A p \in partial : Same(p, db, q)
  PROVE  Kept(q)
BY DEF Raise, Kept, Same

\* How one step can treat the row of a run it is not about.
KeptRow(q) ==
  \/ Alike(db', db, q) /\ Alike(disk', disk, q)
  \/ Alike(db', db, q) /\ Alike(disk', db, q)
  \/ Alike(db', disk, q) /\ Alike(disk', disk, q)

LEMMA CommitKeepsRow ==
  ASSUME NEW s, NEW q \in Runs, Commit(s), Alike(s, db, q)
  PROVE  KeptRow(q)
BY DEF Commit, KeptRow, Alike, Same

LEMMA RaiseKeepsRow ==
  ASSUME NEW partial, NEW q \in Runs, Raise(partial),
         \A p \in partial : Alike(p, db, q)
  PROVE  KeptRow(q)
BY DEF Raise, KeptRow, Alike, Same

LEMMA KeptRowIsKept ==
  ASSUME NEW q \in Runs, KeptRow(q)
  PROVE  Kept(q)
BY DEF KeptRow, Kept, Alike

LEMMA KeptHistory ==
  ASSUME TypeOK, NEW q \in Runs, RunInv(q), Kept(q)
  PROVE  Ahead(q)' /\ Audited(q)'
<1>1. /\ db.events[q] \in Nat /\ disk.events[q] \in Nat
      /\ db.audit[q] \in Nat /\ disk.audit[q] \in Nat
      /\ db.row[q].results \in BOOLEAN /\ disk.row[q].results \in BOOLEAN
  BY DEF TypeOK, Store, Row
<1>2. Decisions(q) \in Nat /\ Decisions(q)' = Decisions(q)
  BY DecisionsNat DEF Decisions
<1>3. Ahead(q)'
  BY <1>1, <1>2 DEF Kept, Same, RunInv, Ahead
<1>4. ASSUME db'.row[q].results \/ disk'.row[q].results
      PROVE  db.row[q].results \/ disk.row[q].results
  BY <1>4 DEF Kept, Same
<1>5. Audited(q)'
  BY <1>1, <1>2, <1>4 DEF Kept, Same, RunInv, Ahead, Audited
<1> QED
  BY <1>3, <1>5

\* The step leaves run q no less durable history than it had.
Durable(q) ==
  /\ disk'.events[q] >= disk.events[q]
  /\ disk'.audit[q] >= disk.audit[q]
  /\ disk.row[q].results =>
       /\ disk'.row[q].results
       /\ disk'.events[q] = disk.events[q]
       /\ disk'.audit[q] = disk.audit[q]

LEMMA KeptIsDurable ==
  ASSUME TypeOK, NEW q \in Runs, RunInv(q), Kept(q)
  PROVE  Durable(q)
<1>1. /\ db.events[q] \in Nat /\ disk.events[q] \in Nat
      /\ db.audit[q] \in Nat /\ disk.audit[q] \in Nat
      /\ Decisions(q) \in Nat
  BY DecisionsNat DEF TypeOK, Store
<1> QED
  BY <1>1 DEF Durable, Kept, Same, RunInv, Ahead, Audited

\* A step of another thread keeps the invariant of run q ...
LEMMA OthersKeep ==
  ASSUME TypeOK, NEW q \in Runs, RunInv(q), Kept(q),
         pc'[q] = pc[q], decided'[q] = decided[q]
  PROVE  RunInv(q)' /\ Durable(q)
<1>1. /\ db.events[q] \in Nat /\ disk.events[q] \in Nat
      /\ db.audit[q] \in Nat /\ disk.audit[q] \in Nat
  BY DEF TypeOK, Store
<1>2. Decisions(q) \in Nat /\ Decisions(q)' = Decisions(q)
  BY DecisionsNat DEF Decisions
<1>3. InStep(q)'
  BY <1>1, <1>2 DEF Kept, Same, RunInv, Ahead, InStep, Unaudited
<1> QED
  BY <1>3, KeptHistory, KeptIsDurable DEF RunInv

\* ... and so does a thread that gives up.
LEMMA GivingUpKeeps ==
  ASSUME TypeOK, NEW q \in Runs, RunInv(q), Kept(q),
         pc'[q] \in {"failing", "done"}
  PROVE  RunInv(q)' /\ Durable(q)
BY KeptHistory, KeptIsDurable DEF RunInv, InStep, Unaudited

LEMMA GotoEffect ==
  ASSUME TypeOK, NEW r \in Runs, NEW state, Goto(r, state)
  PROVE  pc'[r] = state /\ \A q \in Runs \ {r} : pc'[q] = pc[q]
BY DEF TypeOK, Goto

\* A worker writes only to its own run, and moves no other thread.
LEMMA WorkerLeavesAlone ==
  ASSUME TypeOK, NEW r \in Runs, Worker(r), NEW q \in Runs \ {r}
  PROVE  KeptRow(q) /\ pc'[q] = pc[q] /\ decided'[q] = decided[q]
<1>1. /\ db \in Store
      /\ decided[r] \in Nat /\ decided[r] + 1 \in Nat
      /\ decided \in [Runs -> Nat]
  BY DEF TypeOK
<1>2. Alike(db, db, q)
  BY DEF Alike, Same
<1>3. /\ Alike(SetRunning(db, r), db, q)
      /\ Alike(SetCompleted(db, r), db, q)
      /\ Alike(SetFailed(db, r, "exception"), db, q)
      /\ Alike(InsertEvent(db, r), db, q)
      /\ \A n \in Nat : Alike(InsertAudit(db, r, n), db, q)
  BY <1>1, RowEffects DEF Error
<1>4. Alike(SetProgress(InsertEvent(db, r), r, decided[r] + 1), db, q)
  <2>1. InsertEvent(db, r) \in Store
    BY <1>1, StatementTypes DEF Error
  <2>2. Alike(SetProgress(InsertEvent(db, r), r, decided[r] + 1),
              InsertEvent(db, r), q)
    BY <1>1, <2>1, RowEffects DEF Error
  <2> QED
    BY <1>3, <2>2 DEF Alike, Same
<1>5. pc'[q] = pc[q] /\ decided'[q] = decided[q]
  BY GotoEffect
     DEF TypeOK, Worker, BeginRun, BeginRunRaises, AppendEvent,
         AppendEventRaises, BeginAgentStage, EndAgentStage,
         RecordAuditEntries, RecordAuditEntriesRaises, CompleteRun,
         CompleteRunRaises, PipelineRaises, RecordFailure,
         RecordFailureRaises, Decide
<1>6. KeptRow(q)
  <2>1. CASE BeginRun(r)
    BY <1>3, <2>1, CommitKeepsRow DEF BeginRun
  <2>2. CASE BeginRunRaises(r)
    <3>1. \A p \in {db, SetRunning(db, r)} : Alike(p, db, q)
      BY <1>2, <1>3
    <3> QED
      BY <2>2, <3>1, RaiseKeepsRow DEF BeginRunRaises
  <2>3. CASE AppendEvent(r)
    BY <1>4, <2>3, CommitKeepsRow DEF AppendEvent
  <2>4. CASE AppendEventRaises(r)
    <3>1. \A p \in {db, InsertEvent(db, r),
                    SetProgress(InsertEvent(db, r), r, decided[r] + 1)} :
            Alike(p, db, q)
      BY <1>2, <1>3, <1>4
    <3>2. Raise({db, InsertEvent(db, r),
                 SetProgress(InsertEvent(db, r), r, decided[r] + 1)})
      BY <2>4 DEF AppendEventRaises
    <3> QED
      BY <3>1, <3>2, RaiseKeepsRow
  <2>5. CASE BeginAgentStage(r) \/ EndAgentStage(r) \/ PipelineRaises(r)
    BY <2>5 DEF BeginAgentStage, EndAgentStage, PipelineRaises, KeptRow, Alike,
                Same
  <2>6. CASE RecordAuditEntries(r)
    BY <1>1, <1>3, <2>6, CommitKeepsRow DEF RecordAuditEntries
  <2>7. CASE RecordAuditEntriesRaises(r)
    <3>1. \A p \in {InsertAudit(db, r, n) : n \in 0..decided[r]} :
            Alike(p, db, q)
      BY <1>1, <1>3
    <3> QED
      BY <2>7, <3>1, RaiseKeepsRow DEF RecordAuditEntriesRaises
  <2>8. CASE CompleteRun(r)
    BY <1>3, <2>8, CommitKeepsRow DEF CompleteRun
  <2>9. CASE CompleteRunRaises(r)
    <3>1. \A p \in {db, SetCompleted(db, r)} : Alike(p, db, q)
      BY <1>2, <1>3
    <3> QED
      BY <2>9, <3>1, RaiseKeepsRow DEF CompleteRunRaises
  <2>10. CASE RecordFailure(r)
    BY <1>3, <2>10, CommitKeepsRow DEF RecordFailure
  <2>11. CASE RecordFailureRaises(r)
    <3>1. \A p \in {db, SetFailed(db, r, "exception")} : Alike(p, db, q)
      BY <1>2, <1>3
    <3> QED
      BY <2>11, <3>1, RaiseKeepsRow DEF RecordFailureRaises
  <2> QED
    BY <2>1, <2>2, <2>3, <2>4, <2>5, <2>6, <2>7, <2>8, <2>9, <2>10, <2>11
       DEF Worker
<1> QED
  BY <1>5, <1>6

\* Nor does POST /runs touch a run but the one it creates.
LEMMA RequestLeavesAlone ==
  ASSUME TypeOK, NEW r \in Runs, Request(r), NEW q \in Runs \ {r}
  PROVE  KeptRow(q) /\ pc'[q] = pc[q] /\ decided'[q] = decided[q]
<1>1. \A p \in {db, InsertJob(db, r)} : Alike(p, db, q)
  BY RowEffects DEF TypeOK, Error, Alike, Same
<1>2. CASE CreateJob(r)
  BY <1>1, <1>2, GotoEffect, CommitKeepsRow DEF CreateJob
<1>3. CASE CreateJobRaises(r)
  BY <1>1, <1>3, GotoEffect, RaiseKeepsRow DEF CreateJobRaises
<1>4. CASE StartJob(r)
  BY <1>4, GotoEffect DEF StartJob, KeptRow, Alike, Same
<1> QED
  BY <1>2, <1>3, <1>4 DEF Request

\* A sweep writes only the status and error of the rows it took.
LEMMA ReaderKeeps ==
  ASSUME TypeOK, NEW c \in Readers, Reader(c), NEW q \in Runs
  PROVE  Kept(q) /\ pc' = pc /\ decided' = decided
<1>1. db \in Store /\ reader[c].todo \in SUBSET Runs
  BY DEF TypeOK, ReaderState
<1>2. \A r \in Runs : Same(SetFailed(db, r, "timeout"), db, q)
  BY <1>1, StatementEffects DEF Error
<1>3. pc' = pc /\ decided' = decided
  BY DEF Reader, ReapSelect, ReapOne, ReapOneRaises, Read
<1>4. CASE ReapSelect(c) \/ Read(c)
  BY <1>3, <1>4 DEF ReapSelect, Read, Kept, Same
<1>5. CASE ReapOne(c)
  BY <1>1, <1>2, <1>3, <1>5, CommitKeeps DEF ReapOne
<1>6. CASE ReapOneRaises(c)
  <2>1. PICK r \in reader[c].todo : Raise({db, SetFailed(db, r, "timeout")})
    BY <1>6 DEF ReapOneRaises
  <2>2. \A p \in {db, SetFailed(db, r, "timeout")} : Same(p, db, q)
    BY <1>1, <1>2 DEF Same
  <2> QED
    BY <1>3, <2>1, <2>2, RaiseKeeps
<1> QED
  BY <1>4, <1>5, <1>6 DEF Reader

\* A step that is not one of run q's own can make durable or roll back what
\* the connection holds of it, or be the death of its thread.
Aside(q) ==
  /\ Kept(q)
  /\ \/ pc'[q] = pc[q] /\ decided'[q] = decided[q]
     \/ pc[q] # "unborn" /\ pc'[q] = "done" /\ decided'[q] = decided[q]

LEMMA OwnOrAside ==
  ASSUME TypeOK, [Next]_vars, NEW q \in Runs
  PROVE  Request(q) \/ Worker(q) \/ Aside(q)
<1>1. ASSUME NEW r \in Runs \ {q}, Request(r) \/ Worker(r) PROVE Aside(q)
  BY <1>1, RequestLeavesAlone, WorkerLeavesAlone, KeptRowIsKept DEF Aside
<1>2. ASSUME NEW r \in Runs, GrowStale(r) PROVE Aside(q)
  <2>1. Same(Age(db, r), db, q) /\ Same(Age(disk, r), disk, q)
    BY StatementEffects DEF Error, TypeOK
  <2> QED
    BY <1>2, <2>1 DEF GrowStale, Kept, Aside
<1>3. ASSUME NEW c \in Readers, Reader(c) PROVE Aside(q)
  BY <1>3, ReaderKeeps DEF Aside
<1>4. CASE Crash
  BY <1>4 DEF Crash, Kept, Same, Aside
<1>5. CASE UNCHANGED vars
  BY <1>5 DEF vars, Kept, Same, Aside
<1> QED
  BY <1>1, <1>2, <1>3, <1>4, <1>5 DEF Next

-----------------------------------------------------------------------------
LEMMA InitIInv == Init => IInv
<1> SUFFICES ASSUME Init PROVE IInv
  OBVIOUS
<1>1. TypeOK
  BY InitTypeOK
<1>2. ASSUME NEW r \in Runs PROVE RunInv(r)
  BY DecisionsNat
     DEF Init, Empty, NoRow, RunInv, Ahead, InStep, Audited, Unaudited
<1> QED
  BY <1>1, <1>2 DEF IInv

\* POST /runs.
LEMMA RequestIInv ==
  ASSUME IInv, NEW r \in Runs, Request(r)
  PROVE  RunInv(r)' /\ Durable(r)
<1>1. TypeOK /\ RunInv(r) /\ db \in Store
  BY DEF IInv, TypeOK
<1>2. /\ InsertJob(db, r).events = db.events
      /\ InsertJob(db, r).audit = db.audit
      /\ InsertJob(db, r).row[r].results = FALSE
  BY <1>1, StatementEffects DEF Error
<1>3. /\ db.events[r] \in Nat /\ db.audit[r] \in Nat /\ Decisions(r) \in Nat
      /\ disk.events[r] \in Nat /\ disk.audit[r] \in Nat
      /\ Decisions(r)' = Decisions(r)
  BY <1>1, DecisionsNat DEF TypeOK, Store, Decisions
<1>4. CASE CreateJob(r)
  <2>1. /\ pc[r] = "unborn" /\ pc'[r] = "created" /\ decided' = decided
        /\ db' = InsertJob(db, r) /\ disk' = db'
    BY <1>1, <1>4, GotoEffect DEF CreateJob, Commit
  <2> QED
    BY <1>1, <1>2, <1>3, <2>1
       DEF RunInv, Ahead, InStep, Audited, Unaudited, Durable
<1>5. CASE CreateJobRaises(r)
  <2>1. /\ pc[r] = "unborn" /\ pc'[r] = "done" /\ decided' = decided
        /\ db' \in {db, InsertJob(db, r), disk} /\ disk' = disk
    BY <1>1, <1>5, GotoEffect DEF CreateJobRaises, Raise
  <2> QED
    BY <1>1, <1>2, <1>3, <2>1
       DEF RunInv, Ahead, InStep, Audited, Unaudited, Durable
<1>6. CASE StartJob(r)
  <2>1. /\ pc[r] = "created" /\ pc'[r] = "spawned"
        /\ UNCHANGED <<db, disk, decided>>
    BY <1>1, <1>6, GotoEffect DEF StartJob
  <2>2. RunInv(r)'
    BY <1>1, <2>1 DEF RunInv, Ahead, InStep, Audited, Unaudited, Decisions
  <2>3. Kept(r)
    BY <2>1 DEF Kept, Same
  <2> QED
    BY <1>1, <2>2, <2>3, KeptIsDurable
<1> QED
  BY <1>4, <1>5, <1>6 DEF Request

\* The worker of r, seen from r itself.
LEMMA WorkerKeepsOwn ==
  ASSUME IInv, NEW r \in Runs, Worker(r)
  PROVE  RunInv(r)' /\ Durable(r)
<1>1. /\ TypeOK /\ RunInv(r) /\ db \in Store
      /\ decided \in [Runs -> Nat] /\ decided[r] \in Nat
      /\ decided[r] + 1 \in Nat
  BY DEF IInv, TypeOK
<1>2. /\ db.events[r] \in Nat /\ disk.events[r] \in Nat
      /\ db.audit[r] \in Nat /\ disk.audit[r] \in Nat
      /\ Decisions(r) \in Nat /\ Det[r] \in Nat /\ Det[r] <= Decisions(r)
      /\ Decisions(r)' = Decisions(r)
  BY <1>1, DecisionsNat DEF TypeOK, Store, Decisions
<1>3. \A state : Goto(r, state) => pc'[r] = state
  BY <1>1, GotoEffect
<1>4. /\ Same(db, db, r)
      /\ Same(SetRunning(db, r), db, r)
      /\ Same(SetFailed(db, r, "exception"), db, r)
  BY <1>1, StatementEffects DEF Error, Same
<1> USE DEF RunInv, Ahead, InStep, Audited, Unaudited, Durable
<1>5. CASE BeginRun(r)
  <2>1. pc[r] = "spawned" /\ pc'[r] = "deterministic" /\ decided' = decided
    BY <1>3, <1>5 DEF BeginRun
  <2>2. Kept(r)
    BY <1>4, <1>5, CommitKeeps DEF BeginRun
  <2>3. Ahead(r)' /\ Audited(r)'
    BY <1>1, <2>2, KeptHistory
  <2> QED
    BY <1>1, <1>2, <2>1, <2>2, <2>3 DEF Kept, Same
<1>6. CASE BeginRunRaises(r)
  <2>1. pc'[r] = "failing"
    BY <1>3, <1>6 DEF BeginRunRaises
  <2>2. Kept(r)
    BY <1>4, <1>6, RaiseKeeps DEF BeginRunRaises
  <2> QED
    BY <1>1, <2>1, <2>2, GivingUpKeeps
<1>7. /\ InsertEvent(db, r) \in Store
      /\ InsertEvent(db, r).events[r] = db.events[r] + 1
      /\ InsertEvent(db, r).audit[r] = db.audit[r]
      /\ InsertEvent(db, r).row[r].results = db.row[r].results
      /\ Same(SetProgress(InsertEvent(db, r), r, decided[r] + 1),
              InsertEvent(db, r), r)
  <2>1. InsertEvent(db, r) \in Store
    BY <1>1, StatementTypes DEF Error
  <2> QED
    BY <1>1, <2>1, StatementEffects DEF Error
<1>8. Deciding(r) /\ Decide(r) =>
        /\ db.events[r] < Decisions(r)
        /\ ~db.row[r].results /\ ~disk.row[r].results
        /\ decided'[r] = decided[r] + 1
  BY <1>1, <1>2 DEF Deciding, Decide
<1>9. CASE AppendEvent(r)
  <2>1. /\ Deciding(r) /\ Decide(r) /\ pc' = pc
        /\ Commit(SetProgress(InsertEvent(db, r), r, decided[r] + 1))
    BY <1>9 DEF AppendEvent
  <2>2. /\ disk' = db'
        /\ db'.events[r] = db.events[r] + 1
        /\ db'.audit[r] = db.audit[r]
        /\ db'.row[r].results = db.row[r].results
    BY <1>7, <2>1 DEF Commit, Same
  <2> QED
    BY <1>1, <1>2, <1>8, <2>1, <2>2 DEF Deciding
<1>10. CASE AppendEventRaises(r)
  <2>1. /\ Deciding(r) /\ Decide(r) /\ pc'[r] = "failing"
        /\ Raise({db, InsertEvent(db, r),
                  SetProgress(InsertEvent(db, r), r, decided[r] + 1)})
    BY <1>3, <1>10 DEF AppendEventRaises
  <2>2. /\ disk' = disk
        /\ db'.events[r] \in {db.events[r], db.events[r] + 1, disk.events[r]}
        /\ db'.audit[r] \in {db.audit[r], disk.audit[r]}
        /\ db'.row[r].results \in {db.row[r].results, disk.row[r].results}
    BY <1>7, <2>1 DEF Raise, Same
  <2> QED
    BY <1>1, <1>2, <1>8, <2>1, <2>2 DEF Deciding
<1>11. CASE BeginAgentStage(r)
  BY <1>1, <1>2, <1>3, <1>11 DEF BeginAgentStage
<1>12. CASE EndAgentStage(r)
  BY <1>1, <1>2, <1>3, <1>12 DEF EndAgentStage
<1>13. \A n \in Nat :
         /\ InsertAudit(db, r, n).events[r] = db.events[r]
         /\ InsertAudit(db, r, n).audit[r] = db.audit[r] + n
         /\ InsertAudit(db, r, n).row[r].results = db.row[r].results
  BY <1>1, StatementEffects DEF Error
<1>14. CASE RecordAuditEntries(r)
  <2>1. /\ pc[r] = "audit" /\ pc'[r] = "publish" /\ decided' = decided
        /\ Commit(InsertAudit(db, r, decided[r]))
    BY <1>3, <1>14 DEF RecordAuditEntries
  <2>2. /\ disk' = db'
        /\ db'.events[r] = db.events[r]
        /\ db'.audit[r] = db.audit[r] + decided[r]
        /\ db'.row[r].results = db.row[r].results
    BY <1>1, <1>13, <2>1 DEF Commit
  <2> QED
    BY <1>1, <1>2, <2>1, <2>2
<1>15. CASE RecordAuditEntriesRaises(r)
  <2>1. /\ pc[r] = "audit" /\ pc'[r] = "failing"
        /\ Raise({InsertAudit(db, r, n) : n \in 0..decided[r]})
    BY <1>3, <1>15 DEF RecordAuditEntriesRaises
  <2>2. CASE db' = disk
    BY <1>1, <1>2, <2>1, <2>2 DEF Raise
  <2>3. ASSUME NEW n \in 0..decided[r], db' = InsertAudit(db, r, n)
        PROVE  RunInv(r)' /\ Durable(r)
    <3>1. /\ disk' = disk
          /\ db'.events[r] = db.events[r]
          /\ db'.audit[r] = db.audit[r] + n
          /\ db'.row[r].results = db.row[r].results
      BY <1>1, <1>13, <2>1, <2>3 DEF Raise
    <3> QED
      BY <1>1, <1>2, <2>1, <3>1
  <2> QED
    BY <2>1, <2>2, <2>3 DEF Raise
<1>16. /\ SetCompleted(db, r).events[r] = db.events[r]
       /\ SetCompleted(db, r).audit[r] = db.audit[r]
  BY <1>1, StatementEffects DEF Error
<1>17. CASE CompleteRun(r)
  <2>1. /\ pc[r] = "publish" /\ pc'[r] = "done"
        /\ Commit(SetCompleted(db, r))
    BY <1>3, <1>17 DEF CompleteRun
  <2>2. /\ disk' = db'
        /\ db'.events[r] = db.events[r]
        /\ db'.audit[r] = db.audit[r]
    BY <1>16, <2>1 DEF Commit
  <2> QED
    BY <1>1, <1>2, <2>1, <2>2
<1>18. CASE CompleteRunRaises(r)
  <2>1. /\ pc[r] = "publish" /\ pc'[r] = "failing"
        /\ Raise({db, SetCompleted(db, r)})
    BY <1>3, <1>18 DEF CompleteRunRaises
  <2>2. /\ disk' = disk
        /\ db'.events[r] \in {db.events[r], disk.events[r]}
        /\ db'.audit[r] \in {db.audit[r], disk.audit[r]}
    BY <1>16, <2>1 DEF Raise
  <2> QED
    BY <1>1, <1>2, <2>1, <2>2
<1>19. CASE PipelineRaises(r)
  <2>1. pc'[r] = "failing" /\ UNCHANGED <<db, disk>>
    BY <1>3, <1>19 DEF PipelineRaises
  <2>2. Kept(r)
    BY <2>1 DEF Kept, Same
  <2> QED
    BY <1>1, <2>1, <2>2, GivingUpKeeps
<1>20. CASE RecordFailure(r)
  <2>1. pc'[r] = "done"
    BY <1>3, <1>20 DEF RecordFailure
  <2>2. Kept(r)
    BY <1>4, <1>20, CommitKeeps DEF RecordFailure
  <2> QED
    BY <1>1, <2>1, <2>2, GivingUpKeeps
<1>21. CASE RecordFailureRaises(r)
  <2>1. pc'[r] = "done"
    BY <1>3, <1>21 DEF RecordFailureRaises
  <2>2. Kept(r)
    BY <1>4, <1>21, RaiseKeeps DEF RecordFailureRaises
  <2> QED
    BY <1>1, <2>1, <2>2, GivingUpKeeps
<1> QED
  BY <1>5, <1>6, <1>9, <1>10, <1>11, <1>12, <1>14, <1>15, <1>17, <1>18,
     <1>19, <1>20, <1>21 DEF Worker

LEMMA NextIInv ==
  ASSUME IInv, [Next]_vars
  PROVE  IInv' /\ \A q \in Runs : Durable(q)
<1>1. TypeOK /\ TypeOK'
  BY NextTypeOK DEF IInv
<1>2. ASSUME NEW q \in Runs PROVE RunInv(q)' /\ Durable(q)
  <2>1. CASE Request(q)
    BY <2>1, RequestIInv
  <2>2. CASE Worker(q)
    BY <2>2, WorkerKeepsOwn
  <2>3. CASE Aside(q)
    BY <1>1, <2>3, OthersKeep, GivingUpKeeps DEF IInv, Aside
  <2> QED
    BY <1>1, <2>1, <2>2, <2>3, OwnOrAside
<1> QED
  BY <1>1, <1>2 DEF IInv

LEMMA InvariantIInv == Spec => []IInv
<1>1. IInv /\ [Next]_vars => IInv'
  BY NextIInv
<1> QED
  BY InitIInv, <1>1, PTL DEF Spec

\* Whatever fails and whenever the process dies, nobody is ever served the
\* results of a run whose audit log or event log is not complete on disk.
THEOREM ResultsAreAudited == Spec => []AuditedBeforePublished
<1>1. IInv => AuditedBeforePublished
  BY DEF IInv, RunInv, Audited, AuditedBeforePublished
<1> QED
  BY InvariantIInv, <1>1, PTL

\* A completed run that no sweep has picked can be picked by none.
LEMMA StaysOutOfReach ==
  ASSUME IInv, [Next]_vars, NEW q \in Runs, OutOfReach(q)
  PROVE  OutOfReach(q)'
<1>1. TypeOK /\ db \in Store /\ pc[q] = "done"
  BY DEF IInv, TypeOK, OutOfReach
<1>2. ASSUME KeptRow(q)
      PROVE  db'.row[q].status = "completed" /\ disk'.row[q].status = "completed"
  BY <1>2 DEF KeptRow, Alike, OutOfReach
<1>3. ASSUME NEW r \in Runs, Request(r) \/ Worker(r) PROVE OutOfReach(q)'
  <2>1. r # q
    BY <1>1, <1>3 DEF Request, CreateJob, CreateJobRaises, StartJob, Worker,
       BeginRun, BeginRunRaises, AppendEvent, AppendEventRaises, Deciding,
       BeginAgentStage, EndAgentStage, RecordAuditEntries,
       RecordAuditEntriesRaises, CompleteRun, CompleteRunRaises,
       PipelineRaises, Working, RecordFailure, RecordFailureRaises
  <2>2. KeptRow(q) /\ pc'[q] = pc[q]
    BY <1>1, <1>3, <2>1, RequestLeavesAlone, WorkerLeavesAlone
  <2>3. reader' = reader
    BY <1>3 DEF Request, CreateJob, CreateJobRaises, StartJob, Worker,
       BeginRun, BeginRunRaises, AppendEvent, AppendEventRaises,
       BeginAgentStage, EndAgentStage, RecordAuditEntries,
       RecordAuditEntriesRaises, CompleteRun, CompleteRunRaises,
       PipelineRaises, RecordFailure, RecordFailureRaises
  <2> QED
    BY <1>1, <1>2, <2>2, <2>3 DEF OutOfReach
<1>4. ASSUME NEW r \in Runs, GrowStale(r) PROVE OutOfReach(q)'
  <2>1. Alike(Age(db, r), db, q) /\ Alike(Age(disk, r), disk, q)
    BY <1>1, RowEffects DEF Error, TypeOK
  <2>2. KeptRow(q) /\ pc' = pc /\ reader' = reader
    BY <1>4, <2>1 DEF GrowStale, KeptRow
  <2> QED
    BY <1>2, <2>2 DEF OutOfReach
<1>5. ASSUME NEW c \in Readers, Reader(c) PROVE OutOfReach(q)'
  <2>1. pc' = pc /\ q \notin reader[c].todo /\ q \notin Stale(db)
    BY <1>5 DEF Reader, ReapSelect, ReapOne, ReapOneRaises, Read, OutOfReach, Stale
  <2>2. \A x \in Readers : q \notin reader'[x].todo
    <3>1. /\ reader \in [Readers -> ReaderState]
          /\ \A x \in Readers : q \notin reader[x].todo
      BY <1>1 DEF TypeOK, OutOfReach
    <3>2. CASE ReapSelect(c)
      BY <2>1, <3>1, <3>2 DEF ReapSelect
    <3>3. CASE ReapOne(c)
      BY <3>1, <3>3 DEF ReapOne, ReaderState
    <3>4. CASE ReapOneRaises(c)
      BY <3>1, <3>4 DEF ReapOneRaises, Idle
    <3>5. CASE Read(c)
      BY <3>1, <3>5 DEF Read, Idle
    <3> QED
      BY <1>5, <3>2, <3>3, <3>4, <3>5 DEF Reader
  <2>3. KeptRow(q)
    <3>1. CASE ReapSelect(c) \/ Read(c)
      BY <3>1 DEF ReapSelect, Read, KeptRow, Alike, Same
    <3>2. ASSUME NEW r \in Runs \ {q} PROVE Alike(SetFailed(db, r, "timeout"), db, q)
      BY <1>1, RowEffects DEF Error
    <3>3. \A r \in reader[c].todo : r \in Runs \ {q}
      BY <1>1, <2>1 DEF TypeOK, ReaderState
    <3>4. CASE ReapOne(c)
      BY <3>2, <3>3, <3>4, CommitKeepsRow DEF ReapOne
    <3>5. CASE ReapOneRaises(c)
      <4>1. PICK r \in reader[c].todo : Raise({db, SetFailed(db, r, "timeout")})
        BY <3>5 DEF ReapOneRaises
      <4>2. \A p \in {db, SetFailed(db, r, "timeout")} : Alike(p, db, q)
        BY <3>2, <3>3 DEF Alike, Same
      <4> QED
        BY <4>1, <4>2, RaiseKeepsRow
    <3> QED
      BY <1>5, <3>1, <3>4, <3>5 DEF Reader
  <2> QED
    BY <1>1, <1>2, <2>1, <2>2, <2>3 DEF OutOfReach
<1>6. CASE Crash
  <2>1. db' = disk /\ disk' = disk /\ pc'[q] = "done"
    BY <1>1, <1>6 DEF Crash
  <2>2. \A c \in Readers : reader'[c].todo = {}
    BY <1>6 DEF Crash, Idle
  <2> QED
    BY <2>1, <2>2 DEF OutOfReach
<1>7. CASE UNCHANGED vars
  BY <1>7 DEF vars, OutOfReach
<1> QED
  BY <1>3, <1>4, <1>5, <1>6, <1>7 DEF Next

\* No crash, reap, rollback or late thread ever takes back what is on disk,
\* nothing is added to the history of a run whose results are out, and a
\* completed run stays completed unless a sweep had picked it before.
THEOREM NothingIsTakenBack == Spec => HistoryIsDurable
<1>1. IInv /\ [Next]_vars =>
        [\A r \in Runs :
           /\ disk'.events[r] >= disk.events[r]
           /\ disk'.audit[r] >= disk.audit[r]
           /\ disk.row[r].results =>
                /\ disk'.row[r].results
                /\ disk'.events[r] = disk.events[r]
                /\ disk'.audit[r] = disk.audit[r]
           /\ OutOfReach(r) => OutOfReach(r)']_vars
  BY NextIInv, StaysOutOfReach DEF Durable
<1> QED
  BY InvariantIInv, <1>1, PTL DEF Spec, HistoryIsDurable
-----------------------------------------------------------------------------
(* Without failed writes the connection holds nothing that is not on disk, *)
(* and the audit log of a run is empty or full.                            *)

Clean ==
  faults = 0 => db = disk /\ \A r \in Runs : db.audit[r] \in {0, Decisions(r)}

LEMMA CommitClean ==
  ASSUME Clean, NEW s, Commit(s),
         \A q \in Runs : s.audit[q] = db.audit[q] \/ s.audit[q] \in {0, Decisions(q)}
  PROVE  Clean'
BY DEF Clean, Commit, Decisions

LEMMA RaiseClean ==
  ASSUME TypeOK, NEW partial, Raise(partial)
  PROVE  Clean'
BY DEF TypeOK, Raise, Clean

LEMMA AuditOnlyBatched ==
  ASSUME NEW s \in Store, NEW r \in Runs, NEW n \in Nat, NEW why \in Error
  PROVE  \A q \in Runs :
           /\ InsertJob(s, r).audit[q] = s.audit[q]
           /\ SetRunning(s, r).audit[q] = s.audit[q]
           /\ SetCompleted(s, r).audit[q] = s.audit[q]
           /\ SetFailed(s, r, why).audit[q] = s.audit[q]
           /\ Age(s, r).audit[q] = s.audit[q]
           /\ SetProgress(InsertEvent(s, r), r, n).audit[q] = s.audit[q]
           /\ q # r => InsertAudit(s, r, n).audit[q] = s.audit[q]
<1>1. ASSUME NEW t, NEW new PROVE UpdateJob(t, r, new).audit = t.audit
  BY DEF UpdateJob
<1>2. InsertJob(s, r).audit = s.audit /\ InsertEvent(s, r).audit = s.audit
  BY StatementEffects
<1>3. \A q \in Runs \ {r} : InsertAudit(s, r, n).audit[q] = s.audit[q]
  BY DEF InsertAudit, Store
<1>4. SetProgress(InsertEvent(s, r), r, n).audit = s.audit
  BY <1>1, <1>2 DEF SetProgress
<1> QED
  BY <1>1, <1>2, <1>3, <1>4 DEF SetRunning, SetCompleted, SetFailed, Age

LEMMA NextClean ==
  ASSUME IInv, Clean, [Next]_vars
  PROVE  Clean'
<1>1. TypeOK /\ db \in Store /\ disk \in Store
  BY DEF IInv, TypeOK
<1>2. ASSUME NEW r \in Runs, Request(r) PROVE Clean'
  <2>1. CASE CreateJob(r)
    BY <1>1, <2>1, CommitClean, AuditOnlyBatched DEF CreateJob, Error
  <2>2. CASE CreateJobRaises(r)
    BY <1>1, <2>2, RaiseClean DEF CreateJobRaises
  <2>3. CASE StartJob(r)
    BY <2>3 DEF StartJob, Clean, Decisions
  <2> QED
    BY <1>2, <2>1, <2>2, <2>3 DEF Request
<1>3. ASSUME NEW r \in Runs, Worker(r) PROVE Clean'
  <2>1. ASSUME NEW partial, Raise(partial) PROVE Clean'
    BY <1>1, <2>1, RaiseClean
  <2>2. CASE \/ BeginRunRaises(r) \/ AppendEventRaises(r)
             \/ RecordAuditEntriesRaises(r) \/ CompleteRunRaises(r)
             \/ RecordFailureRaises(r)
    BY <2>1, <2>2 DEF BeginRunRaises, AppendEventRaises,
       RecordAuditEntriesRaises, CompleteRunRaises, RecordFailureRaises
  <2>3. CASE BeginAgentStage(r) \/ EndAgentStage(r) \/ PipelineRaises(r)
    BY <2>3 DEF BeginAgentStage, EndAgentStage, PipelineRaises, Clean, Decisions
  <2>4. CASE BeginRun(r)
    BY <1>1, <2>4, CommitClean, AuditOnlyBatched DEF BeginRun, Error
  <2>5. CASE AppendEvent(r)
    <3>1. decided[r] + 1 \in Nat
      BY <1>1 DEF TypeOK
    <3> QED
      BY <1>1, <2>5, <3>1, CommitClean, AuditOnlyBatched DEF AppendEvent, Error
  <2>6. CASE RecordAuditEntries(r)
    <3>1. decided[r] \in Nat /\ decided[r] = Decisions(r) /\ db.audit[r] = 0
      BY <1>1, <2>6 DEF RecordAuditEntries, IInv, RunInv, InStep, Unaudited, TypeOK
    <3>2. InsertAudit(db, r, decided[r]).audit[r] = db.audit[r] + decided[r]
      BY <1>1, <3>1, StatementEffects DEF Error
    <3>3. \A q \in Runs : \/ InsertAudit(db, r, decided[r]).audit[q] = db.audit[q]
                          \/ InsertAudit(db, r, decided[r]).audit[q] \in {0, Decisions(q)}
      <4>1. \A q \in Runs \ {r} :
               InsertAudit(db, r, decided[r]).audit[q] = db.audit[q]
        BY <1>1, <3>1, AuditOnlyBatched DEF Error
      <4> QED
        BY <3>1, <3>2, <4>1
    <3> QED
      BY <2>6, <3>3, CommitClean DEF RecordAuditEntries
  <2>7. CASE CompleteRun(r)
    BY <1>1, <2>7, CommitClean, AuditOnlyBatched DEF CompleteRun, Error
  <2>8. CASE RecordFailure(r)
    BY <1>1, <2>8, CommitClean, AuditOnlyBatched DEF RecordFailure, Error
  <2> QED
    BY <1>3, <2>2, <2>3, <2>4, <2>5, <2>6, <2>7, <2>8 DEF Worker
<1>4. ASSUME NEW r \in Runs, GrowStale(r) PROVE Clean'
  <2>1. db' = Age(db, r) /\ disk' = Age(disk, r) /\ faults' = faults
    BY <1>4 DEF GrowStale
  <2>2. \A q \in Runs : Age(db, r).audit[q] = db.audit[q]
    BY <1>1, AuditOnlyBatched DEF Error
  <2> QED
    BY <2>1, <2>2 DEF Clean, Decisions
<1>5. ASSUME NEW c \in Readers, Reader(c) PROVE Clean'
  <2>1. CASE ReapSelect(c) \/ Read(c)
    BY <2>1 DEF ReapSelect, Read, Clean, Decisions
  <2>2. CASE ReapOne(c)
    <3>1. PICK r \in reader[c].todo : Commit(SetFailed(db, r, "timeout"))
      BY <2>2 DEF ReapOne
    <3>2. r \in Runs
      BY <1>1, <3>1 DEF TypeOK, ReaderState
    <3> QED
      BY <1>1, <3>1, <3>2, CommitClean, AuditOnlyBatched DEF Error
  <2>3. CASE ReapOneRaises(c)
    BY <1>1, <2>3, RaiseClean DEF ReapOneRaises
  <2> QED
    BY <1>5, <2>1, <2>2, <2>3 DEF Reader
<1>6. CASE Crash
  BY <1>6 DEF Crash, Clean, Decisions
<1>7. CASE UNCHANGED vars
  BY <1>7 DEF vars, Clean, Decisions
<1> QED
  BY <1>2, <1>3, <1>4, <1>5, <1>6, <1>7 DEF Next

\* As long as every write succeeds, no death of the process, at any instant,
\* and no late thread leaves a part of a run's decisions in the audit log.
THEOREM CrashesLeaveWholeAudits == Spec => []CrashesTearNothing
<1>1. Init => Clean
  BY DEF Init, Clean, Empty
<1>2. IInv /\ Clean /\ [Next]_vars => Clean'
  BY NextClean
<1>3. Clean => CrashesTearNothing
  BY DEF Clean, CrashesTearNothing, AuditAllOrNothing
<1> QED
  BY InvariantIInv, <1>1, <1>2, <1>3, PTL DEF Spec
-----------------------------------------------------------------------------
(***************************************************************************)
(* What a row shows, and what the next commit can make durable.            *)
(*                                                                         *)
(* Neither ProgressFollowsEvents nor the refinement of RunLedger is        *)
(* inductive: both depend on which rows a thread at a given place can      *)
(* find (Placed), and the ledger also on how the row on the connection can *)
(* differ from the one on disk (OnTheWay), since any thread's commit takes *)
(* that difference along.                                                  *)
(***************************************************************************)

\* One face of the store, about one run.
Shown(s, r) ==
  /\ s.row[r].progress \in {s.events[r], s.events[r] - 1}
  /\ s.row[r].status = "absent" =>
       s.events[r] = 0 /\ s.audit[r] = 0 /\ s.row[r].progress = 0
  /\ s.row[r].status = "completed" => s.row[r].results
  /\ s.row[r].status \in {"absent", "pending", "running"} => ~s.row[r].results

\* The rows the thread of r finds: once they are there they stay, nobody but
\* the thread itself moves them past "failed", and their progress is its own.
Placed(r) ==
  /\ pc[r] = "unborn" =>
       db.row[r].status = "absent" /\ disk.row[r].status = "absent"
  /\ pc[r] \in {"created", "spawned"} =>
       /\ db.row[r].status \in {"pending", "failed"}
       /\ disk.row[r].status \in {"pending", "failed"}
  /\ pc[r] \in Working =>
       /\ db.row[r].status \in {"running", "failed"}
       /\ disk.row[r].status \in {"running", "failed"}
       /\ disk.row[r].status = "failed" => db.row[r].status = "failed"
  /\ pc[r] \in {"created", "spawned"} \cup Working =>
       db.row[r].progress = decided[r] /\ disk.row[r].progress = decided[r]

\* How far the status on the connection can be from the one on disk.
Ways ==
  ({"absent"} \X {"absent", "pending", "failed"})
  \cup ({"pending"} \X {"pending", "running", "failed"})
  \cup ({"running"} \X {"running", "completed", "failed"})
  \cup ({"failed"} \X {"failed", "running", "completed"})
  \cup ({"completed"} \X {"completed", "failed"})

\* A failed write leaves a part of an audit log, or results, only of a run
\* that was running or had been reaped.
OnTheWay(r) ==
  /\ <<disk.row[r].status, db.row[r].status>> \in Ways
  /\ db.audit[r] # disk.audit[r] =>
       /\ disk.audit[r] = 0
       /\ disk.row[r].status \in {"running", "failed"}
       /\ db.row[r].status \in {disk.row[r].status, "failed"}
       /\ ~db.row[r].results
  /\ db.row[r].results /\ ~disk.row[r].results =>
       /\ disk.row[r].status \in {"running", "failed"}
       /\ db.row[r].status \in {"completed", "failed"}
  /\ disk.row[r].results => db.row[r].status \in {disk.row[r].status, "failed"}

RowInv(r) == Shown(db, r) /\ Shown(disk, r) /\ Placed(r) /\ OnTheWay(r)

LInv == IInv /\ \A r \in Runs : RowInv(r)

LEMMA RowTypes ==
  ASSUME TypeOK, NEW q \in Runs
  PROVE  /\ db.events[q] \in Nat /\ disk.events[q] \in Nat
         /\ db.audit[q] \in Nat /\ disk.audit[q] \in Nat
         /\ db.row[q].status \in Status /\ disk.row[q].status \in Status
         /\ db.row[q].progress \in Nat /\ disk.row[q].progress \in Nat
         /\ db.row[q].results \in BOOLEAN /\ disk.row[q].results \in BOOLEAN
         /\ decided[q] \in Nat /\ pc[q] \in ThreadState
BY DEF TypeOK, Store, Row

\* The ledger makes a step for run q, or does not see this one.
LedgerStep(q) == Ledger!Step(q) \/ UNCHANGED Ledger!run(q)



\* The ledger's view of a run, in terms of what is on disk.
LEMMA LedgerView ==
  ASSUME NEW q \in Runs
  PROVE  /\ Ledger!run(q) =
              <<disk.row[q].status, disk.audit[q], disk.row[q].results>>
         /\ Ledger!run(q)' =
              <<disk'.row[q].status, disk'.audit[q], disk'.row[q].results>>
BY DEF Ledger!run

LEMMA LedgerIdles ==
  ASSUME NEW q \in Runs,
         disk'.row[q].status = disk.row[q].status,
         disk'.audit[q] = disk.audit[q],
         disk'.row[q].results = disk.row[q].results
  PROVE  LedgerStep(q)
BY LedgerView DEF LedgerStep

LEMMA LedgerCreates ==
  ASSUME NEW q \in Runs,
         disk.row[q].status = "absent", disk'.row[q].status = "pending",
         disk'.audit[q] = disk.audit[q],
         disk'.row[q].results = disk.row[q].results
  PROVE  LedgerStep(q)
BY LedgerView DEF LedgerStep, Ledger!Step, Ledger!Created

LEMMA LedgerStarts ==
  ASSUME NEW q \in Runs,
         disk.row[q].status \in {"pending", "failed"},
         disk'.row[q].status = "running",
         disk'.audit[q] = disk.audit[q],
         disk'.row[q].results = disk.row[q].results
  PROVE  LedgerStep(q)
BY LedgerView DEF LedgerStep, Ledger!Step, Ledger!Started

LEMMA LedgerLeaks ==
  ASSUME NEW q \in Runs,
         disk.row[q].status \in {"running", "failed"},
         disk'.row[q].status = disk.row[q].status,
         disk.audit[q] = 0, disk'.audit[q] \in 0..Decisions(q),
         disk'.row[q].results = disk.row[q].results
  PROVE  LedgerStep(q)
BY LedgerView DEF LedgerStep, Ledger!Step, Ledger!Leaked

LEMMA LedgerPublishes ==
  ASSUME NEW q \in Runs,
         disk.row[q].status \in {"running", "failed"},
         disk'.row[q].status = "completed",
         disk.audit[q] = Decisions(q), disk'.audit[q] = disk.audit[q],
         disk.row[q].results = FALSE, disk'.row[q].results = TRUE
  PROVE  LedgerStep(q)
BY LedgerView DEF LedgerStep, Ledger!Step, Ledger!Published

LEMMA LedgerFails ==
  ASSUME NEW q \in Runs,
         disk'.row[q].status = "failed",
         disk'.audit[q] \in 0..Decisions(q),
         disk'.audit[q] = disk.audit[q] \/ disk.audit[q] = 0,
         disk'.row[q].results \in BOOLEAN,
         \/ disk'.row[q].results = disk.row[q].results
         \/ disk'.row[q].results = TRUE /\ disk.audit[q] = Decisions(q)
  PROVE  LedgerStep(q)
BY LedgerView DEF LedgerStep, Ledger!Step, Ledger!Failed

\* Making durable what the connection holds is a step of the ledger.
LEMMA PromotionIsAStep ==
  ASSUME TypeOK, NEW q \in Runs, RunInv(q), RowInv(q), Alike(disk', db, q)
  PROVE  LedgerStep(q)
<1>1. /\ db.audit[q] \in 0..Decisions(q) /\ disk.audit[q] \in Nat
      /\ db.row[q].results \in BOOLEAN /\ disk.row[q].results \in BOOLEAN
  BY RowTypes, DecisionsNat DEF RunInv, Ahead
<1>2. /\ disk'.row[q].status = db.row[q].status
      /\ disk'.audit[q] = db.audit[q]
      /\ disk'.row[q].results = db.row[q].results
  BY DEF Alike, Same
<1>3. /\ <<disk.row[q].status, db.row[q].status>> \in Ways
      /\ db.audit[q] # disk.audit[q] =>
           /\ disk.audit[q] = 0
           /\ disk.row[q].status \in {"running", "failed"}
           /\ db.row[q].status \in {disk.row[q].status, "failed"}
  BY DEF RowInv, OnTheWay
<1>4. /\ db.audit[q] # disk.audit[q] => db.row[q].results = disk.row[q].results
      /\ db.row[q].results = disk.row[q].results
         \/ /\ db.row[q].results = TRUE /\ disk.row[q].results = FALSE
            /\ disk.audit[q] = Decisions(q)
            /\ db.row[q].status \in {"completed", "failed"}
            /\ disk.row[q].status \in {"running", "failed"}
  BY <1>1 DEF RowInv, OnTheWay, RunInv, Ahead, Audited
<1>5. CASE db.row[q].status = "failed"
  BY <1>1, <1>2, <1>3, <1>4, <1>5, LedgerFails
<1>6. CASE db.row[q].status # "failed" /\ db.row[q].status = disk.row[q].status
  <2>1. db.row[q].results = disk.row[q].results
    BY <1>1, <1>4, <1>6 DEF RowInv, Shown
  <2> QED
    BY <1>1, <1>2, <1>3, <1>6, <2>1, LedgerIdles, LedgerLeaks
<1>7. CASE db.row[q].status # "failed" /\ db.row[q].status # disk.row[q].status
  <2>1. db.audit[q] = disk.audit[q]
    BY <1>3, <1>7
  <2>2. CASE db.row[q].status \in {"pending", "running"}
    <3>1. db.row[q].results = disk.row[q].results
      BY <1>4, <2>2
    <3>2. \/ db.row[q].status = "pending" /\ disk.row[q].status = "absent"
          \/ /\ db.row[q].status = "running"
             /\ disk.row[q].status \in {"pending", "failed"}
      BY <1>3, <1>7, <2>2 DEF Ways
    <3> QED
      BY <1>2, <2>1, <3>1, <3>2, LedgerCreates, LedgerStarts
  <2>3. CASE db.row[q].status = "completed"
    <3>1. disk.row[q].status \in {"running", "failed"}
      BY <1>3, <1>7, <2>3 DEF Ways
    <3>2. db.row[q].results = TRUE /\ disk.row[q].results = FALSE
      BY <1>1, <1>7, <2>3 DEF RowInv, OnTheWay, Shown
    <3>3. disk.audit[q] = Decisions(q)
      BY <3>2 DEF RunInv, Audited
    <3> QED
      BY <1>2, <2>1, <2>3, <3>1, <3>2, <3>3, LedgerPublishes
  <2> QED
    BY <1>3, <1>7, <2>2, <2>3 DEF Ways
<1> QED
  BY <1>5, <1>6, <1>7

\* A step about another run ...
LEMMA KeptRowKeeps ==
  ASSUME TypeOK, NEW q \in Runs, RunInv(q), RowInv(q), KeptRow(q),
         \/ pc'[q] = pc[q] /\ decided'[q] = decided[q]
         \/ pc'[q] \in {"failing", "done"}
  PROVE  RowInv(q)' /\ LedgerStep(q)
<1>1. LedgerStep(q)
  BY PromotionIsAStep, LedgerIdles DEF KeptRow, Alike, Same
<1>2. Shown(db, q)' /\ Shown(disk, q)'
  BY DEF RowInv, Shown, KeptRow, Alike, Same
<1>3. Placed(q)'
  BY DEF RowInv, Placed, Working, KeptRow, Alike, Same
<1>4. OnTheWay(q)'
  <2>1. db.row[q].status \in Status /\ disk.row[q].status \in Status
    BY RowTypes
  <2>2. CASE Alike(db', db, q) /\ Alike(disk', disk, q)
    BY <2>2 DEF RowInv, OnTheWay, Alike, Same, Ways
  <2>3. CASE \/ Alike(db', db, q) /\ Alike(disk', db, q)
             \/ Alike(db', disk, q) /\ Alike(disk', disk, q)
    <3>1. /\ disk'.row[q].status = db'.row[q].status
          /\ disk'.audit[q] = db'.audit[q]
          /\ disk'.row[q].results => db'.row[q].results
          /\ db'.row[q].results => disk'.row[q].results
          /\ db'.row[q].status \in Status
      BY <2>1, <2>3 DEF Alike, Same
    <3> QED
      BY <3>1 DEF OnTheWay, Ways, Status
  <2> QED
    BY <2>2, <2>3 DEF KeptRow
<1> QED
  BY <1>1, <1>2, <1>3, <1>4 DEF RowInv

\* ... and the update that marks a run failed, which its own thread and any
\* reader can issue, whatever the row says by then.
LEMMA FailedRowKeeps ==
  ASSUME TypeOK, NEW q \in Runs, RunInv(q), RowInv(q), NEW why \in Error,
         \/ Commit(SetFailed(db, q, why))
         \/ Raise({db, SetFailed(db, q, why)}),
         \/ pc'[q] = pc[q] /\ decided'[q] = decided[q]
         \/ pc'[q] \in {"failing", "done"}
  PROVE  RowInv(q)' /\ LedgerStep(q)
<1> DEFINE failed == SetFailed(db, q, why)
<1>1. /\ Same(failed, db, q)
      /\ failed.row[q].progress = db.row[q].progress
      /\ db.row[q].status = "absent" => failed = db
      /\ db.row[q].status # "absent" => failed.row[q].status = "failed"
  <2>1. db \in Store /\ 0 \in Nat
    BY DEF TypeOK
  <2>2. Same(failed, db, q)
    BY <2>1, StatementEffects
  <2> QED
    BY <2>1, <2>2, RowEffects
<1>2. /\ disk.row[q].status \in Status /\ db.row[q].results \in BOOLEAN
      /\ db.audit[q] \in 0..Decisions(q) /\ disk.audit[q] \in Nat
      /\ disk.row[q].results \in BOOLEAN
  BY RowTypes, DecisionsNat DEF RunInv, Ahead
<1> HIDE DEF failed
<1>3. \/ db' = failed /\ disk' = failed
      \/ db' \in {db, failed, disk} /\ disk' = disk
  BY DEF failed, Commit, Raise
<1>4. CASE db.row[q].status = "absent" \/ db' # failed
  <2>1. KeptRow(q)
    BY <1>1, <1>3, <1>4 DEF KeptRow, Alike, Same
  <2> QED
    BY <2>1, KeptRowKeeps
<1>5. CASE db.row[q].status # "absent" /\ db' = failed
  <2>1. /\ db'.events[q] = db.events[q] /\ db'.audit[q] = db.audit[q]
        /\ db'.row[q].results = db.row[q].results
        /\ db'.row[q].progress = db.row[q].progress
        /\ db'.row[q].status = "failed"
    BY <1>1, <1>5 DEF Same
  <2>2. disk' = db' \/ disk' = disk
    BY <1>3, <1>5
  <2>3. Shown(db, q)' /\ Shown(disk, q)'
    BY <2>1, <2>2 DEF RowInv, Shown
  <2>4. Placed(q)'
    BY <1>5, <2>1, <2>2 DEF RowInv, Placed, Working
  <2>5. OnTheWay(q)'
    BY <1>2, <2>1, <2>2 DEF RowInv, OnTheWay, Ways, Status
  <2>6. LedgerStep(q)
    <3>1. CASE disk' = disk
      BY <3>1, LedgerIdles
    <3>2. CASE disk' = db'
      <4>1. \/ db.row[q].results = disk.row[q].results
            \/ db.row[q].results = TRUE /\ disk.audit[q] = Decisions(q)
        BY <1>2 DEF RunInv, Ahead, Audited
      <4>2. db.audit[q] = disk.audit[q] \/ disk.audit[q] = 0
        BY DEF RowInv, OnTheWay
      <4> QED
        BY <1>2, <2>1, <3>2, <4>1, <4>2, LedgerFails
    <3> QED
      BY <2>2, <3>1, <3>2
  <2> QED
    BY <2>3, <2>4, <2>5, <2>6 DEF RowInv
<1> QED
  BY <1>4, <1>5
-----------------------------------------------------------------------------
LEMMA InitLInv == Init => LInv
<1> SUFFICES ASSUME Init PROVE LInv
  OBVIOUS
<1>1. ASSUME NEW r \in Runs PROVE RowInv(r)
  BY DEF Init, Empty, NoRow, RowInv, Shown, Placed, OnTheWay, Ways, Working
<1> QED
  BY <1>1, InitIInv DEF LInv


\* POST /runs.
LEMMA RequestLInv ==
  ASSUME LInv, NEW r \in Runs, Request(r), NEW q \in Runs
  PROVE  RowInv(q)' /\ LedgerStep(q)
<1>1. /\ TypeOK /\ RunInv(q) /\ RowInv(q) /\ RunInv(r) /\ RowInv(r)
      /\ db \in Store
  BY DEF LInv, IInv, TypeOK
<1>3. CASE q # r
  BY <1>1, <1>3, RequestLeavesAlone, KeptRowKeeps
<1>4. /\ InsertJob(db, r).row[r].status = "pending"
      /\ InsertJob(db, r).row[r].progress = 0
      /\ InsertJob(db, r).row[r].results = FALSE
      /\ InsertJob(db, r).events = db.events
      /\ InsertJob(db, r).audit = db.audit
  <2>1. /\ InsertJob(db, r).row[r].results = FALSE
        /\ InsertJob(db, r).events = db.events
        /\ InsertJob(db, r).audit = db.audit
    BY <1>1, StatementEffects DEF Error
  <2> QED
    BY <1>1, <2>1, RowEffects DEF Error
<1>5. ASSUME pc[r] = "unborn"
      PROVE  /\ db.row[r].status = "absent" /\ disk.row[r].status = "absent"
             /\ db.events[r] = 0 /\ db.audit[r] = 0 /\ decided[r] = 0
             /\ disk.events[r] = 0 /\ disk.audit[r] = 0
             /\ disk.row[r].results = FALSE /\ db.row[r].results = FALSE
  BY <1>1, <1>5, RowTypes DEF RowInv, Placed, Shown, RunInv, InStep, Unaudited
<1>6. CASE CreateJob(r) /\ q = r
  <2>1. /\ pc[r] = "unborn" /\ pc'[r] = "created" /\ decided'[r] = decided[r]
        /\ db' = InsertJob(db, r) /\ disk' = InsertJob(db, r)
    BY <1>1, <1>6, GotoEffect DEF CreateJob, Commit
  <2>2. Shown(db, r)' /\ Shown(disk, r)' /\ Placed(r)' /\ OnTheWay(r)'
    BY <1>4, <1>5, <2>1 DEF Shown, Placed, Working, OnTheWay, Ways
  <2> QED
    BY <1>4, <1>5, <1>6, <2>1, <2>2, LedgerCreates DEF RowInv
<1>7. CASE CreateJobRaises(r) /\ q = r
  <2>1. /\ pc[r] = "unborn" /\ pc'[r] = "done"
        /\ db' \in {db, InsertJob(db, r), disk} /\ disk' = disk
    BY <1>1, <1>7, GotoEffect DEF CreateJobRaises, Raise
  <2>2. CASE db' = InsertJob(db, r)
    <3>1. Shown(db, r)' /\ Shown(disk, r)' /\ Placed(r)' /\ OnTheWay(r)'
      BY <1>1, <1>4, <1>5, <2>1, <2>2
         DEF RowInv, Shown, Placed, Working, OnTheWay, Ways
    <3> QED
      BY <1>7, <2>1, <3>1, LedgerIdles DEF RowInv
  <2>3. CASE db' \in {db, disk}
    <3>1. KeptRow(q)
      BY <2>1, <2>3 DEF KeptRow, Alike, Same
    <3> QED
      BY <1>1, <1>7, <2>1, <3>1, KeptRowKeeps
  <2> QED
    BY <2>1, <2>2, <2>3
<1>8. CASE StartJob(r) /\ q = r
  <2>1. /\ pc[r] = "created" /\ pc'[r] = "spawned"
        /\ UNCHANGED <<db, disk, decided>>
    BY <1>1, <1>8, GotoEffect DEF StartJob
  <2>2. RowInv(r)'
    BY <1>1, <2>1 DEF RowInv, Shown, Placed, Working, OnTheWay
  <2> QED
    BY <1>8, <2>1, <2>2, LedgerIdles
<1> QED
  BY <1>3, <1>6, <1>7, <1>8 DEF Request

\* The worker of r, seen from r itself.
LEMMA WorkerKeepsOwnRow ==
  ASSUME LInv, NEW r \in Runs, Worker(r)
  PROVE  RowInv(r)' /\ LedgerStep(r)
<1>1. /\ TypeOK /\ RunInv(r) /\ RowInv(r) /\ db \in Store
      /\ decided \in [Runs -> Nat] /\ decided[r] \in Nat
      /\ decided[r] + 1 \in Nat
  BY DEF LInv, IInv, TypeOK
<1>2. /\ db.events[r] \in Nat /\ disk.events[r] \in Nat
      /\ db.audit[r] \in Nat /\ disk.audit[r] \in Nat
      /\ db.row[r].results \in BOOLEAN /\ disk.row[r].results \in BOOLEAN
      /\ Decisions(r) \in Nat /\ Det[r] \in Nat /\ Det[r] <= Decisions(r)
      /\ Decisions(r)' = Decisions(r)
  BY <1>1, RowTypes, DecisionsNat DEF Decisions
<1>3. \A state : Goto(r, state) => pc'[r] = state
  BY <1>1, GotoEffect
\* What the thread finds while it is at work.
<1>4. ASSUME pc[r] \in Working \cup {"spawned"}
      PROVE  /\ db.events[r] = decided[r] /\ disk.events[r] = decided[r]
             /\ db.row[r].progress = decided[r]
             /\ disk.row[r].progress = decided[r]
             /\ db.row[r].results = FALSE /\ disk.row[r].results = FALSE
             /\ pc[r] # "publish" => db.audit[r] = 0 /\ disk.audit[r] = 0
             /\ db.row[r].status # "absent"
             /\ pc[r] \in Working =>
                  /\ db.row[r].status \in {"running", "failed"}
                  /\ disk.row[r].status \in {"running", "failed"}
                  /\ disk.row[r].status = "failed" => db.row[r].status = "failed"
  BY <1>1, <1>2, <1>4
     DEF RunInv, Ahead, InStep, Unaudited, RowInv, Placed, Working
<1>5. /\ SetRunning(db, r).events[r] = db.events[r]
      /\ SetRunning(db, r).audit[r] = db.audit[r]
      /\ SetRunning(db, r).row[r].results = db.row[r].results
      /\ SetRunning(db, r).row[r].progress = db.row[r].progress
      /\ db.row[r].status # "absent" =>
           SetRunning(db, r).row[r].status = "running"
  <2>1. Same(SetRunning(db, r), db, r)
    BY <1>1, StatementEffects DEF Error
  <2> QED
    BY <1>1, <2>1, RowEffects DEF Error, Same
<1>6. CASE BeginRun(r)
  <2>1. /\ pc[r] = "spawned" /\ pc'[r] = "deterministic"
        /\ decided'[r] = decided[r]
        /\ db' = SetRunning(db, r) /\ disk' = SetRunning(db, r)
    BY <1>3, <1>6 DEF BeginRun, Commit
  <2>2. disk.row[r].status \in {"pending", "failed"}
    BY <1>1, <2>1 DEF RowInv, Placed
  <2>3. Shown(db, r)' /\ Shown(disk, r)' /\ Placed(r)' /\ OnTheWay(r)'
    BY <1>2, <1>4, <1>5, <2>1 DEF Shown, Placed, Working, OnTheWay, Ways
  <2> QED
    BY <1>4, <1>5, <2>1, <2>2, <2>3, LedgerStarts DEF RowInv
<1>7. CASE BeginRunRaises(r)
  <2>1. /\ pc[r] = "spawned" /\ pc'[r] = "failing"
        /\ db' \in {db, SetRunning(db, r), disk} /\ disk' = disk
    BY <1>3, <1>7 DEF BeginRunRaises, Raise
  <2>2. CASE db' = SetRunning(db, r)
    <3>1. disk.row[r].status \in {"pending", "failed"}
      BY <1>1, <2>1 DEF RowInv, Placed
    <3>2. Shown(db, r)' /\ Shown(disk, r)' /\ Placed(r)' /\ OnTheWay(r)'
      BY <1>1, <1>2, <1>4, <1>5, <2>1, <2>2, <3>1
         DEF RowInv, Shown, Placed, Working, OnTheWay, Ways
    <3> QED
      BY <2>1, <3>2, LedgerIdles DEF RowInv
  <2>3. CASE db' \in {db, disk}
    <3>1. KeptRow(r)
      BY <2>1, <2>3 DEF KeptRow, Alike, Same
    <3> QED
      BY <1>1, <2>1, <3>1, KeptRowKeeps
  <2> QED
    BY <2>1, <2>2, <2>3
<1> DEFINE inserted == InsertEvent(db, r)
           told == SetProgress(inserted, r, decided[r] + 1)
<1>8. /\ inserted.events[r] = db.events[r] + 1
      /\ inserted.audit[r] = db.audit[r]
      /\ inserted.row = db.row
      /\ told.events[r] = inserted.events[r]
      /\ told.audit[r] = inserted.audit[r]
      /\ told.row[r].results = inserted.row[r].results
      /\ told.row[r].status = inserted.row[r].status
      /\ inserted.row[r].status # "absent" => told.row[r].progress = decided[r] + 1
  <2>1. inserted \in Store
    BY <1>1, StatementTypes DEF Error
  <2>2. /\ inserted.events[r] = db.events[r] + 1 /\ inserted.audit = db.audit
        /\ inserted.row = db.row
    BY <1>1, StatementEffects DEF Error
  <2>3. Same(told, inserted, r)
    BY <1>1, <2>1, StatementEffects DEF Error
  <2>4. /\ told.row[r].status = inserted.row[r].status
        /\ inserted.row[r].status # "absent" =>
             told.row[r].progress = decided[r] + 1
    BY <1>1, <2>1, RowEffects DEF Error
  <2> QED
    BY <2>2, <2>3, <2>4 DEF Same
<1>9. Deciding(r) => pc[r] \in {"deterministic", "agent"}
  BY DEF Deciding
<1>10. Decide(r) => decided'[r] = decided[r] + 1
  BY <1>1 DEF Decide
<1>11. CASE AppendEvent(r)
  <2>1. /\ pc[r] \in {"deterministic", "agent"} /\ pc'[r] = pc[r]
        /\ decided'[r] = decided[r] + 1
        /\ db' = told /\ disk' = told
    BY <1>9, <1>10, <1>11 DEF AppendEvent, Commit
  <2>2. Shown(db, r)' /\ Shown(disk, r)' /\ Placed(r)' /\ OnTheWay(r)'
    BY <1>2, <1>4, <1>8, <2>1 DEF Shown, Placed, Working, OnTheWay, Ways
  <2>3. /\ disk'.audit[r] = disk.audit[r]
        /\ disk'.row[r].results = disk.row[r].results
        /\ \/ disk'.row[r].status = disk.row[r].status
           \/ disk'.row[r].status = "failed"
    BY <1>4, <1>8, <2>1 DEF Working
  <2>4. disk.audit[r] = 0
    BY <1>4, <2>1 DEF Working
  <2>5. disk'.audit[r] \in 0..Decisions(r)
    BY <1>2, <2>3, <2>4
  <2> QED
    BY <1>2, <2>2, <2>3, <2>5, LedgerIdles, LedgerFails DEF RowInv
<1>12. CASE AppendEventRaises(r)
  <2>1. /\ Deciding(r) /\ Goto(r, "failing") /\ Raise({db, inserted, told})
    BY <1>12 DEF AppendEventRaises
  <2>2. /\ pc[r] \in {"deterministic", "agent"} /\ pc'[r] = "failing"
        /\ db' \in {db, inserted, told, disk} /\ disk' = disk
    BY <1>3, <1>9, <2>1 DEF Raise
  <2>3. CASE db' \in {inserted, told}
    <3>1. /\ db'.events[r] = decided[r] + 1 /\ db'.audit[r] = 0
          /\ db'.row[r].status = db.row[r].status
          /\ db'.row[r].results = FALSE
          /\ db'.row[r].progress \in {decided[r], decided[r] + 1}
      BY <1>2, <1>4, <1>8, <2>2, <2>3 DEF Working
    <3>2. /\ db.row[r].status \in {"running", "failed"}
          /\ disk.row[r].status \in {"running", "failed"}
          /\ disk.row[r].status = "failed" => db.row[r].status = "failed"
          /\ disk.audit[r] = 0 /\ disk.row[r].results = FALSE
      BY <1>4, <2>2 DEF Working
    <3>3. Shown(db, r)' /\ Shown(disk, r)' /\ Placed(r)' /\ OnTheWay(r)'
      BY <1>1, <1>2, <2>2, <3>1, <3>2
         DEF RowInv, Shown, Placed, Working, OnTheWay, Ways
    <3> QED
      BY <2>2, <3>3, LedgerIdles DEF RowInv
  <2>4. CASE db' \in {db, disk}
    <3>1. KeptRow(r)
      BY <2>2, <2>4 DEF KeptRow, Alike, Same
    <3> QED
      BY <1>1, <2>2, <3>1, KeptRowKeeps
  <2> QED
    BY <2>2, <2>3, <2>4
<1>13. CASE BeginAgentStage(r) \/ EndAgentStage(r)
  <2>1. /\ pc[r] \in {"deterministic", "agent"} /\ pc'[r] \in {"agent", "audit"}
        /\ UNCHANGED <<db, disk, decided>>
    BY <1>3, <1>13 DEF BeginAgentStage, EndAgentStage
  <2>2. RowInv(r)'
    BY <1>1, <2>1 DEF RowInv, Shown, Placed, Working, OnTheWay
  <2> QED
    BY <2>1, <2>2, LedgerIdles
<1>14. ASSUME NEW n \in Nat
       PROVE  /\ InsertAudit(db, r, n).audit[r] = db.audit[r] + n
              /\ InsertAudit(db, r, n).events = db.events
              /\ InsertAudit(db, r, n).row = db.row
  BY <1>1, StatementEffects DEF Error
<1>15. CASE RecordAuditEntries(r)
  <2>1. /\ pc[r] = "audit" /\ pc'[r] = "publish" /\ decided'[r] = decided[r]
        /\ db' = InsertAudit(db, r, decided[r]) /\ disk' = db'
    BY <1>3, <1>15 DEF RecordAuditEntries, Commit
  <2>2. db.audit[r] = 0 /\ disk.audit[r] = 0
    BY <1>4, <2>1 DEF Working
  <2>3. /\ db'.audit[r] = decided[r] /\ db'.events[r] = db.events[r]
        /\ db'.row[r] = db.row[r]
    BY <1>1, <1>14, <2>1, <2>2
  <2>4. Shown(db, r)' /\ Shown(disk, r)' /\ Placed(r)' /\ OnTheWay(r)'
    BY <1>2, <1>4, <2>1, <2>3 DEF Shown, Placed, Working, OnTheWay, Ways
  <2>5. disk'.audit[r] \in 0..Decisions(r)
    BY <1>1, <1>2, <2>1, <2>3 DEF RunInv, InStep
  <2>6. /\ disk.row[r].status \in {"running", "failed"}
        /\ disk'.row[r].results = disk.row[r].results
        /\ \/ disk'.row[r].status = disk.row[r].status
           \/ disk'.row[r].status = "failed"
    BY <1>4, <2>1, <2>3 DEF Working
  <2> QED
    BY <1>2, <2>2, <2>4, <2>5, <2>6, LedgerLeaks, LedgerFails DEF RowInv
<1>16. CASE RecordAuditEntriesRaises(r)
  <2>1. /\ pc[r] = "audit" /\ pc'[r] = "failing"
        /\ Raise({InsertAudit(db, r, n) : n \in 0..decided[r]})
    BY <1>3, <1>16 DEF RecordAuditEntriesRaises
  <2>2. CASE db' = disk
    <3>1. KeptRow(r)
      BY <2>1, <2>2 DEF KeptRow, Alike, Same, Raise
    <3> QED
      BY <1>1, <2>1, <3>1, KeptRowKeeps
  <2>3. ASSUME NEW n \in 0..decided[r], db' = InsertAudit(db, r, n)
        PROVE  RowInv(r)' /\ LedgerStep(r)
    <3>1. /\ disk' = disk /\ n \in Nat
      BY <1>1, <2>1, <2>3 DEF Raise
    <3>2. /\ db'.audit[r] = db.audit[r] + n /\ db'.events[r] = db.events[r]
          /\ db'.row[r] = db.row[r]
      BY <1>14, <2>3, <3>1
    <3>3. Shown(db, r)' /\ Shown(disk, r)' /\ Placed(r)' /\ OnTheWay(r)'
      BY <1>1, <1>2, <1>4, <2>1, <3>1, <3>2
         DEF RowInv, Shown, Placed, Working, OnTheWay, Ways
    <3> QED
      BY <3>1, <3>3, LedgerIdles DEF RowInv
  <2> QED
    BY <2>1, <2>2, <2>3 DEF Raise
<1> DEFINE completed == SetCompleted(db, r)
<1>17. /\ completed.events[r] = db.events[r]
       /\ completed.audit[r] = db.audit[r]
       /\ db.row[r].status # "absent" =>
            /\ completed.row[r].status = "completed"
            /\ completed.row[r].progress = db.row[r].progress
  <2>1. completed.events = db.events /\ completed.audit = db.audit
    BY <1>1, StatementEffects DEF Error
  <2> QED
    BY <1>1, <2>1, RowEffects DEF Error
<1>18. db.row[r].status # "absent" => completed.row[r].results = TRUE
  <2>1. completed \in Store
    BY <1>1, StatementTypes DEF Error
  <2>2. completed.row[r].results \in BOOLEAN
    BY <2>1 DEF Store, Row
  <2>3. db.row[r].status # "absent" => completed.row[r].results
    BY <1>1, RowEffects DEF Error
  <2> QED
    BY <2>2, <2>3
<1>19. pc[r] = "publish" =>
         db.audit[r] = Decisions(r) /\ disk.audit[r] = Decisions(r)
  BY <1>1, <1>2 DEF RunInv, Ahead, InStep
<1>20. CASE CompleteRun(r)
  <2>1. /\ pc[r] = "publish" /\ pc'[r] = "done"
        /\ db' = completed /\ disk' = db'
    BY <1>3, <1>20 DEF CompleteRun, Commit
  <2>2. Shown(db, r)' /\ Shown(disk, r)' /\ Placed(r)' /\ OnTheWay(r)'
    BY <1>2, <1>4, <1>17, <1>18, <2>1 DEF Shown, Placed, Working, OnTheWay, Ways
  <2> QED
    BY <1>4, <1>17, <1>18, <1>19, <2>1, <2>2, LedgerPublishes DEF RowInv, Working
<1>21. CASE CompleteRunRaises(r)
  <2>1. /\ pc[r] = "publish" /\ pc'[r] = "failing"
        /\ db' \in {db, completed, disk} /\ disk' = disk
    BY <1>3, <1>21 DEF CompleteRunRaises, Raise
  <2>2. CASE db' = completed
    <3>1. Shown(db, r)' /\ Shown(disk, r)' /\ Placed(r)' /\ OnTheWay(r)'
      BY <1>1, <1>2, <1>4, <1>17, <1>18, <1>19, <2>1, <2>2
         DEF RowInv, Shown, Placed, Working, OnTheWay, Ways
    <3> QED
      BY <2>1, <3>1, LedgerIdles DEF RowInv
  <2>3. CASE db' \in {db, disk}
    <3>1. KeptRow(r)
      BY <2>1, <2>3 DEF KeptRow, Alike, Same
    <3> QED
      BY <1>1, <2>1, <3>1, KeptRowKeeps
  <2> QED
    BY <2>1, <2>2, <2>3
<1>22. CASE PipelineRaises(r)
  <2>1. pc'[r] = "failing" /\ UNCHANGED <<db, disk>>
    BY <1>3, <1>22 DEF PipelineRaises
  <2>2. KeptRow(r)
    BY <2>1 DEF KeptRow, Alike, Same
  <2> QED
    BY <1>1, <2>1, <2>2, KeptRowKeeps
<1>23. CASE RecordFailure(r) \/ RecordFailureRaises(r)
  <2>1. /\ pc'[r] = "done"
        /\ \/ Commit(SetFailed(db, r, "exception"))
           \/ Raise({db, SetFailed(db, r, "exception")})
    BY <1>3, <1>23 DEF RecordFailure, RecordFailureRaises
  <2> QED
    BY <1>1, <2>1, FailedRowKeeps DEF Error
<1> QED
  BY <1>6, <1>7, <1>11, <1>12, <1>13, <1>15, <1>16, <1>20, <1>21, <1>22, <1>23
     DEF Worker

\* A sweep.
LEMMA ReaderLInv ==
  ASSUME LInv, NEW c \in Readers, Reader(c), NEW q \in Runs
  PROVE  RowInv(q)' /\ LedgerStep(q)
<1>1. /\ TypeOK /\ RunInv(q) /\ RowInv(q) /\ db \in Store
      /\ reader[c].todo \in SUBSET Runs
  BY DEF LInv, IInv, TypeOK, ReaderState
<1>2. pc' = pc /\ decided' = decided
  BY DEF Reader, ReapSelect, ReapOne, ReapOneRaises, Read
<1>3. CASE ReapSelect(c) \/ Read(c)
  <2>1. KeptRow(q)
    BY <1>3 DEF ReapSelect, Read, KeptRow, Alike, Same
  <2> QED
    BY <1>1, <1>2, <2>1, KeptRowKeeps
<1>4. CASE ReapOne(c) \/ ReapOneRaises(c)
  <2>1. PICK r \in reader[c].todo :
          \/ Commit(SetFailed(db, r, "timeout"))
          \/ Raise({db, SetFailed(db, r, "timeout")})
    BY <1>4 DEF ReapOne, ReapOneRaises
  <2>2. CASE r = q
    BY <1>1, <1>2, <2>1, <2>2, FailedRowKeeps DEF Error
  <2>3. CASE r # q
    <3>1. \A p \in {db, SetFailed(db, r, "timeout")} : Alike(p, db, q)
      <4>1. Alike(SetFailed(db, r, "timeout"), db, q)
        BY <1>1, <2>1, <2>3, RowEffects DEF Error
      <4> QED
        BY <4>1 DEF Alike, Same
    <3>2. KeptRow(q)
      BY <2>1, <3>1, CommitKeepsRow, RaiseKeepsRow
    <3> QED
      BY <1>1, <1>2, <3>2, KeptRowKeeps
  <2> QED
    BY <2>2, <2>3
<1> QED
  BY <1>3, <1>4 DEF Reader

LEMMA NextLInv ==
  ASSUME LInv, [Next]_vars
  PROVE  LInv' /\ \A q \in Runs : LedgerStep(q)
<1>1. TypeOK /\ IInv'
  BY NextIInv DEF LInv, IInv
<1>2. ASSUME NEW q \in Runs PROVE RowInv(q)' /\ LedgerStep(q)
  <2>1. RunInv(q) /\ RowInv(q)
    BY DEF LInv, IInv
  <2>2. ASSUME NEW r \in Runs, Request(r) PROVE RowInv(q)' /\ LedgerStep(q)
    BY <2>2, RequestLInv
  <2>3. ASSUME NEW r \in Runs, Worker(r) PROVE RowInv(q)' /\ LedgerStep(q)
    BY <1>1, <2>1, <2>3, WorkerLeavesAlone, KeptRowKeeps, WorkerKeepsOwnRow
  <2>4. ASSUME NEW r \in Runs, GrowStale(r) PROVE RowInv(q)' /\ LedgerStep(q)
    <3>1. Alike(Age(db, r), db, q) /\ Alike(Age(disk, r), disk, q)
      BY <1>1, RowEffects DEF Error, TypeOK
    <3>2. KeptRow(q) /\ pc' = pc /\ decided' = decided
      BY <2>4, <3>1 DEF GrowStale, KeptRow
    <3> QED
      BY <1>1, <2>1, <3>2, KeptRowKeeps
  <2>5. ASSUME NEW c \in Readers, Reader(c) PROVE RowInv(q)' /\ LedgerStep(q)
    BY <2>5, ReaderLInv
  <2>6. CASE Crash
    <3>1. KeptRow(q) /\ decided' = decided
      BY <2>6 DEF Crash, KeptRow, Alike, Same
    <3>2. pc'[q] = pc[q] \/ pc'[q] = "done"
      BY <2>6 DEF Crash
    <3> QED
      BY <1>1, <2>1, <3>1, <3>2, KeptRowKeeps
  <2>7. CASE UNCHANGED vars
    <3>1. KeptRow(q) /\ pc' = pc /\ decided' = decided
      BY <2>7 DEF vars, KeptRow, Alike, Same
    <3> QED
      BY <1>1, <2>1, <3>1, KeptRowKeeps
  <2> QED
    BY <2>2, <2>3, <2>4, <2>5, <2>6, <2>7 DEF Next
<1> QED
  BY <1>1, <1>2 DEF LInv

LEMMA InvariantLInv == Spec => []LInv
<1>1. LInv /\ [Next]_vars => LInv'
  BY NextLInv
<1> QED
  BY InitLInv, <1>1, PTL DEF Spec

\* The progress a client is shown always describes an event that is in the
\* log, at most one behind it, whichever of the two statements of
\* _append_event failed and whatever was rolled back since.
THEOREM ProgressIsInTheLog == Spec => []ProgressFollowsEvents
<1>1. LInv => ProgressFollowsEvents
  BY DEF LInv, RowInv, Shown, ProgressFollowsEvents
<1> QED
  BY InvariantLInv, <1>1, PTL

\* Behind any interleaving of threads, readers, failed writes, rollbacks and
\* crashes, what a restart would find of each run goes through the life that
\* RunLedger describes: created, started, recorded, published or failed.
THEOREM StoreImplementsLedger == Spec => ImplementsLedger
<1>1. Init => Ledger!Init
  BY DEF Init, Empty, NoRow, Ledger!Init
<1>2. LInv /\ [Next]_vars =>
        [Ledger!Next]_<<[r \in Runs |-> disk.row[r].status],
                        [r \in Runs |-> disk.audit[r]],
                        [r \in Runs |-> disk.row[r].results]>>
  <2> SUFFICES ASSUME LInv, [Next]_vars PROVE Ledger!Next
    OBVIOUS
  <2>1. \A r \in Runs : Ledger!Step(r) \/ UNCHANGED Ledger!run(r)
    BY NextLInv DEF LedgerStep
  <2> QED
    BY <2>1 DEF Ledger!Next
<1> QED
  BY InvariantLInv, <1>1, <1>2, PTL DEF Spec, ImplementsLedger, Ledger!Spec

-----------------------------------------------------------------------------
(***************************************************************************)
(* What a client sees: ServedRuns, and after a failed write what was last  *)
(* committed.                                                              *)
(*                                                                         *)
(* Every statement is about one run, and shows of it what one step of      *)
(* ServedRuns shows (OneRunMoves), whether its commit went through or      *)
(* raised; a rollback shows what is on disk (FallsBack).  A crash before   *)
(* any write has failed shows nothing new: the connection holds nothing    *)
(* that is not on disk (Clean).                                            *)
(***************************************************************************)

\* A run that has not begun has no events, also in what is on disk: a
\* rollback would bring them back.
Queued(s, r) == s.row[r].status = "pending" => s.events[r] = 0

VInv == LInv /\ Clean /\ \A r \in Runs : Queued(db, r) /\ Queued(disk, r)

LEMMA OneRunMoves ==
  ASSUME TypeOK, NEW r \in Runs, \A q \in Runs \ {r} : Alike(db', db, q)
  PROVE  /\ [q \in Runs |-> db'.row[q].status]
              = [[q \in Runs |-> db.row[q].status] EXCEPT ![r] = db'.row[r].status]
         /\ [q \in Runs |-> db'.events[q]]
              = [[q \in Runs |-> db.events[q]] EXCEPT ![r] = db'.events[r]]
         /\ [q \in Runs |-> db'.row[q].results]
              = [[q \in Runs |-> db.row[q].results] EXCEPT ![r] = db'.row[r].results]
BY DEF Alike, Same

\* What a step about r leaves alone.
LEMMA OneRunKeeps ==
  ASSUME TypeOK, NEW r \in Runs, \A q \in Runs \ {r} : Alike(db', db, q)
  PROVE  /\ db'.row[r].status = db.row[r].status =>
              [q \in Runs |-> db'.row[q].status] = [q \in Runs |-> db.row[q].status]
         /\ db'.events[r] = db.events[r] =>
              [q \in Runs |-> db'.events[q]] = [q \in Runs |-> db.events[q]]
         /\ db'.row[r].results = db.row[r].results =>
              [q \in Runs |-> db'.row[q].results] = [q \in Runs |-> db.row[q].results]
BY DEF Alike, Same

\* The client sees a step of ServedRuns, a fall back, or nothing.
SeesStep == \/ \E r \in Runs : Served!ServerStep(r)
            \/ FallsBack
            \/ UNCHANGED Served!server

ClientKeeps == SeesStep /\ \A q \in Runs : Queued(db, q)'

LEMMA ClientSeesNothing ==
  ASSUME VInv, \A q \in Runs : Alike(db', db, q)
  PROVE  ClientKeeps
<1>1. /\ [q \in Runs |-> db'.row[q].status] = [q \in Runs |-> db.row[q].status]
      /\ [q \in Runs |-> db'.events[q]] = [q \in Runs |-> db.events[q]]
      /\ [q \in Runs |-> db'.row[q].results] = [q \in Runs |-> db.row[q].results]
  BY DEF Alike, Same
<1>2. UNCHANGED Served!server
  BY <1>1 DEF Served!server
<1>3. \A q \in Runs : Queued(db, q)'
  BY DEF VInv, Queued, Alike, Same
<1> QED
  BY <1>2, <1>3 DEF ClientKeeps, SeesStep

LEMMA ClientSeesCreate ==
  ASSUME VInv, NEW r \in Runs, \A q \in Runs \ {r} : Alike(db', db, q),
         db.row[r].status = "absent", db'.row[r].status = "pending",
         db'.events[r] = db.events[r], db'.row[r].results = db.row[r].results
  PROVE  ClientKeeps
<1>1. TypeOK /\ db.events[r] = 0
  BY DEF VInv, LInv, IInv, RowInv, Shown
<1>2. Served!Create(r)
  BY <1>1, OneRunMoves, OneRunKeeps DEF Served!Create, Served!Become
<1>3. \A q \in Runs : Queued(db, q)'
  BY <1>1 DEF VInv, Queued, Alike, Same
<1> QED
  BY <1>2, <1>3 DEF ClientKeeps, SeesStep, Served!ServerStep

LEMMA ClientSeesStart ==
  ASSUME VInv, NEW r \in Runs, \A q \in Runs \ {r} : Alike(db', db, q),
         db.row[r].status = "pending" \/ (db.row[r].status = "failed" /\ db.events[r] = 0),
         db'.row[r].status = "running",
         db'.events[r] = db.events[r], db'.row[r].results = db.row[r].results
  PROVE  ClientKeeps
<1>1. TypeOK
  BY DEF VInv, LInv, IInv
<1>2. Served!Start(r)
  BY <1>1, OneRunMoves, OneRunKeeps DEF Served!Start, Served!Become
<1>3. \A q \in Runs : Queued(db, q)'
  BY DEF VInv, Queued, Alike, Same
<1> QED
  BY <1>2, <1>3 DEF ClientKeeps, SeesStep, Served!ServerStep

LEMMA ClientSeesDecide ==
  ASSUME VInv, NEW r \in Runs, \A q \in Runs \ {r} : Alike(db', db, q),
         db.row[r].status \in {"running", "failed"}, db.events[r] < Decisions(r),
         db'.row[r].status = db.row[r].status,
         db'.events[r] = db.events[r] + 1, db'.row[r].results = db.row[r].results
  PROVE  ClientKeeps
<1>1. TypeOK
  BY DEF VInv, LInv, IInv
<1>2. Served!Decide(r)
  BY <1>1, OneRunMoves, OneRunKeeps DEF Served!Decide
<1>3. \A q \in Runs : Queued(db, q)'
  BY DEF VInv, Queued, Alike, Same
<1> QED
  BY <1>2, <1>3 DEF ClientKeeps, SeesStep, Served!ServerStep

LEMMA ClientSeesPublish ==
  ASSUME VInv, NEW r \in Runs, \A q \in Runs \ {r} : Alike(db', db, q),
         db.row[r].status \in {"running", "failed"}, db.events[r] = Decisions(r),
         ~db.row[r].results, db'.row[r].status = "completed",
         db'.events[r] = db.events[r], db'.row[r].results = TRUE
  PROVE  ClientKeeps
<1>1. TypeOK
  BY DEF VInv, LInv, IInv
<1>2. Served!Publish(r)
  BY <1>1, OneRunMoves, OneRunKeeps DEF Served!Publish, Served!Become
<1>3. \A q \in Runs : Queued(db, q)'
  BY DEF VInv, Queued, Alike, Same
<1> QED
  BY <1>2, <1>3 DEF ClientKeeps, SeesStep, Served!ServerStep

\* The failed write was rolled back.
LEMMA ClientFallsBack ==
  ASSUME VInv, db' = disk, faults' > 0
  PROVE  ClientKeeps
<1>1. FallsBack
  BY DEF FallsBack
<1>2. \A q \in Runs : Queued(db, q)'
  BY DEF VInv, Queued
<1> QED
  BY <1>1, <1>2 DEF ClientKeeps, SeesStep

\* A write that raises shows what one of its statements shows, or falls back.
LEMMA FailedWriteServes ==
  ASSUME VInv, NEW partial, Raise(partial),
         \A s \in partial : db' = s => ClientKeeps
  PROVE  ClientKeeps
<1>1. faults' > 0
  BY DEF VInv, LInv, IInv, TypeOK, Raise
<1>2. db' \in partial \/ db' = disk
  BY DEF Raise
<1> QED
  BY <1>1, <1>2, ClientFallsBack

\* A failure of a run that is not there, or is 'failed' already, shows nothing.
LEMMA ClientSeesFail ==
  ASSUME VInv, NEW r \in Runs, NEW why \in Error,
         db' = SetFailed(db, r, why)
  PROVE  ClientKeeps
<1>1. TypeOK /\ db \in Store /\ db.row[r].status \in Status
  BY RowTypes DEF VInv, LInv, IInv, TypeOK
<1>2. /\ \A q \in Runs \ {r} : Alike(db', db, q)
      /\ Same(db', db, r)
      /\ db.row[r].status # "absent" => db'.row[r].status = "failed"
      /\ db'.row[r].progress = db.row[r].progress
      /\ db.row[r].status = "absent" => db' = db
  <2>1. /\ \A q \in Runs \ {r} : Alike(SetFailed(db, r, why), db, q)
        /\ db.row[r].status # "absent" => SetFailed(db, r, why).row[r].status = "failed"
        /\ SetFailed(db, r, why).row[r].progress = db.row[r].progress
        /\ db.row[r].status = "absent" => SetFailed(db, r, why) = db
    BY <1>1, RowEffects
  <2>2. Same(SetFailed(db, r, why), db, r)
    BY <1>1, StatementEffects
  <2> QED
    BY <2>1, <2>2
<1>3. CASE db.row[r].status \in {"absent", "failed"}
  <2>1. Alike(db', db, r)
    BY <1>2, <1>3 DEF Alike
  <2> QED
    BY <1>2, <2>1, ClientSeesNothing
<1>4. CASE db.row[r].status \in {"pending", "running", "completed"}
  <2>1. Served!Fail(r)
    BY <1>1, <1>2, <1>4, OneRunMoves, OneRunKeeps DEF Served!Fail, Served!Become, Same
  <2>2. \A q \in Runs : Queued(db, q)'
    BY <1>2, <1>4 DEF VInv, Queued, Alike, Same
  <2> QED
    BY <2>1, <2>2 DEF ClientKeeps, SeesStep, Served!ServerStep
<1> QED
  BY <1>1, <1>3, <1>4 DEF Status

LEMMA WorkerServes ==
  ASSUME VInv, NEW r \in Runs, Worker(r)
  PROVE  ClientKeeps
<1>1. TypeOK /\ db \in Store /\ RunInv(r) /\ RowInv(r)
  BY DEF VInv, LInv, IInv, TypeOK
<1>2. /\ decided[r] \in Nat /\ db.row[r].results \in BOOLEAN
      /\ Decisions(r) \in Nat /\ Det[r] \in Nat /\ Det[r] <= Decisions(r)
  BY <1>1, RowTypes, DecisionsNat
<1>3. ASSUME db' = db PROVE ClientKeeps
  <2>1. \A q \in Runs : Alike(db', db, q)
    BY <1>3 DEF Alike, Same
  <2> QED
    BY <2>1, ClientSeesNothing
<1>4. CASE BeginAgentStage(r) \/ EndAgentStage(r) \/ PipelineRaises(r)
  BY <1>3, <1>4 DEF BeginAgentStage, EndAgentStage, PipelineRaises
<1>5. ASSUME pc[r] = "spawned", db' = SetRunning(db, r) PROVE ClientKeeps
  <2>1. db.row[r].status \in {"pending", "failed"} /\ db.events[r] = 0
    BY <1>1, <1>5 DEF RowInv, Placed, RunInv, InStep, Unaudited
  <2>2. /\ \A q \in Runs \ {r} : Alike(db', db, q)
        /\ db'.row[r].status = "running" /\ Same(db', db, r)
    BY <1>1, <1>5, <2>1, RowEffects, StatementEffects DEF Error
  <2> QED
    BY <2>1, <2>2, ClientSeesStart DEF Same
<1>6. CASE BeginRun(r) \/ BeginRunRaises(r)
  <2>1. CASE BeginRun(r)
    BY <1>5, <2>1 DEF BeginRun, Commit
  <2>2. CASE BeginRunRaises(r)
    <3>1. pc[r] = "spawned" /\ Raise({db, SetRunning(db, r)})
      BY <2>2 DEF BeginRunRaises
    <3> QED
      BY <1>3, <1>5, <3>1, FailedWriteServes
  <2> QED
    BY <1>6, <2>1, <2>2
<1> DEFINE inserted == InsertEvent(db, r)
           told == SetProgress(inserted, r, decided[r] + 1)
<1>7. /\ inserted \in Store
      /\ inserted.events[r] = db.events[r] + 1
      /\ inserted.row = db.row
      /\ \A q \in Runs \ {r} : Alike(inserted, db, q)
  <2>1. "none" \in Error
    BY DEF Error
  <2>2. \A q \in Runs \ {r} : Alike(inserted, db, q)
    BY <1>1, <2>1, RowEffects
  <2>3. /\ inserted.events[r] = db.events[r] + 1
        /\ inserted.row = db.row
    BY <1>1, <2>1, StatementEffects
  <2>4. inserted \in Store
    BY <1>1, <2>1, StatementTypes
  <2> QED
    BY <2>2, <2>3, <2>4
<1>8. /\ Same(told, inserted, r)
      /\ told.row[r].status = inserted.row[r].status
      /\ \A q \in Runs \ {r} : Alike(told, inserted, q)
  <2>1. "none" \in Error /\ inserted \in Store /\ decided[r] + 1 \in Nat
    BY <1>2, <1>7 DEF Error
  <2> HIDE DEF inserted
  <2>2. /\ told.row[r].status = inserted.row[r].status
        /\ \A q \in Runs \ {r} : Alike(told, inserted, q)
    BY <2>1, RowEffects
  <2>3. Same(told, inserted, r)
    BY <2>1, StatementEffects
  <2> QED
    BY <2>2, <2>3
<1>9. ASSUME Deciding(r), db' \in {inserted, told} PROVE ClientKeeps
  <2>1. /\ db.row[r].status \in {"running", "failed"}
        /\ db.events[r] = decided[r] /\ decided[r] < Decisions(r)
    BY <1>1, <1>2, <1>9 DEF RowInv, Placed, RunInv, InStep, Unaudited, Deciding, Working
  <2> HIDE DEF inserted, told
  <2>2. /\ \A q \in Runs \ {r} : Alike(db', db, q)
        /\ db'.row[r].status = db.row[r].status
        /\ db'.events[r] = db.events[r] + 1
        /\ db'.row[r].results = db.row[r].results
    BY <1>7, <1>8, <1>9 DEF Alike, Same
  <2> QED
    BY <2>1, <2>2, ClientSeesDecide
<1>10. CASE AppendEvent(r) \/ AppendEventRaises(r)
  <2>1. CASE AppendEvent(r)
    BY <1>9, <2>1 DEF AppendEvent, Commit
  <2>2. CASE AppendEventRaises(r)
    <3>1. Deciding(r) /\ Raise({db, inserted, told})
      BY <2>2 DEF AppendEventRaises
    <3> HIDE DEF inserted, told
    <3> QED
      BY <1>3, <1>9, <3>1, FailedWriteServes
  <2> QED
    BY <1>10, <2>1, <2>2
<1>11. ASSUME NEW n \in Nat, db' = InsertAudit(db, r, n) PROVE ClientKeeps
  <2>1. /\ db'.events = db.events /\ db'.row = db.row
    <3>1. "none" \in Error
      BY DEF Error
    <3>2. /\ InsertAudit(db, r, n).events = db.events
          /\ InsertAudit(db, r, n).row = db.row
      BY <1>1, <3>1, StatementEffects
    <3> QED
      BY <1>11, <3>2
  <2>2. UNCHANGED Served!server
    BY <2>1 DEF Served!server
  <2>3. \A q \in Runs : Queued(db, q)'
    BY <2>1 DEF VInv, Queued
  <2> QED
    BY <2>2, <2>3 DEF ClientKeeps, SeesStep
<1>12. CASE RecordAuditEntries(r) \/ RecordAuditEntriesRaises(r)
  <2>1. CASE RecordAuditEntries(r)
    BY <1>2, <1>11, <2>1 DEF RecordAuditEntries, Commit
  <2>2. CASE RecordAuditEntriesRaises(r)
    <3>1. Raise({InsertAudit(db, r, n) : n \in 0..decided[r]})
      BY <2>2 DEF RecordAuditEntriesRaises
    <3>2. \A s \in {InsertAudit(db, r, n) : n \in 0..decided[r]} :
            db' = s => ClientKeeps
      BY <1>2, <1>11
    <3> QED
      BY <3>1, <3>2, FailedWriteServes
  <2> QED
    BY <1>12, <2>1, <2>2
<1>13. ASSUME pc[r] = "publish", db' = SetCompleted(db, r) PROVE ClientKeeps
  <2>1. /\ db.row[r].status \in {"running", "failed"}
        /\ db.events[r] = decided[r] /\ decided[r] = Decisions(r)
        /\ ~db.row[r].results
    BY <1>1, <1>13 DEF RowInv, Placed, RunInv, InStep, Unaudited, Working
  <2>2. /\ \A q \in Runs \ {r} : Alike(db', db, q)
        /\ db'.row[r].status = "completed" /\ db'.events = db.events
    BY <1>1, <1>13, <2>1, RowEffects, StatementEffects DEF Error
  <2>3. db'.row[r].results
    BY <1>1, <1>13, <2>1, RowEffects DEF Error
  <2>4. db'.row[r].results \in BOOLEAN
    <3>1. db' \in Store
      BY <1>1, <1>13, StatementTypes DEF Error
    <3> QED
      BY <3>1 DEF Store, Row
  <2>5. db'.row[r].results = TRUE
    BY <2>3, <2>4
  <2> QED
    BY <2>1, <2>2, <2>5, ClientSeesPublish
<1>14. CASE CompleteRun(r) \/ CompleteRunRaises(r)
  <2>1. CASE CompleteRun(r)
    BY <1>13, <2>1 DEF CompleteRun, Commit
  <2>2. CASE CompleteRunRaises(r)
    <3>1. pc[r] = "publish" /\ Raise({db, SetCompleted(db, r)})
      BY <2>2 DEF CompleteRunRaises
    <3> QED
      BY <1>3, <1>13, <3>1, FailedWriteServes
  <2> QED
    BY <1>14, <2>1, <2>2
<1>15. CASE RecordFailure(r) \/ RecordFailureRaises(r)
  <2>1. "exception" \in Error
    BY DEF Error
  <2>2. CASE RecordFailure(r)
    BY <2>1, <2>2, ClientSeesFail DEF RecordFailure, Commit
  <2>3. CASE RecordFailureRaises(r)
    <3>1. Raise({db, SetFailed(db, r, "exception")})
      BY <2>3 DEF RecordFailureRaises
    <3>2. db' = SetFailed(db, r, "exception") => ClientKeeps
      BY <2>1, ClientSeesFail
    <3> QED
      BY <1>3, <3>1, <3>2, FailedWriteServes
  <2> QED
    BY <1>15, <2>2, <2>3
<1> QED
  BY <1>4, <1>6, <1>10, <1>12, <1>14, <1>15 DEF Worker

\* What is on disk follows: a commit copies the connection, a write that raises
\* leaves the disk alone, and time ages a row without touching what counts.
LEMMA QueuedOnDisk ==
  ASSUME VInv, [Next]_vars, \A q \in Runs : Queued(db, q)'
  PROVE  \A q \in Runs : Queued(disk, q)'
<1>1. TypeOK /\ disk \in Store
  BY DEF VInv, LInv, IInv, TypeOK
<1>2. CASE disk' \in {disk, db'}
  BY <1>2 DEF VInv, Queued
<1>3. ASSUME NEW r \in Runs, GrowStale(r) PROVE \A q \in Runs : Queued(disk, q)'
  <2>1. disk' = Age(disk, r)
    BY <1>3 DEF GrowStale
  <2>2. \A q \in Runs : Alike(disk', disk, q)
    BY <1>1, <2>1, RowEffects DEF Error
  <2> QED
    BY <2>2 DEF VInv, Queued, Alike, Same
<1>4. ASSUME NEW r \in Runs, Request(r) \/ Worker(r) PROVE disk' \in {disk, db'}
  BY <1>4 DEF Request, CreateJob, CreateJobRaises, StartJob, Worker, BeginRun,
     BeginRunRaises, AppendEvent, AppendEventRaises, BeginAgentStage, EndAgentStage,
     RecordAuditEntries, RecordAuditEntriesRaises, CompleteRun, CompleteRunRaises,
     PipelineRaises, RecordFailure, RecordFailureRaises, Commit, Raise
<1>5. ASSUME NEW c \in Readers, Reader(c) PROVE disk' \in {disk, db'}
  BY <1>5 DEF Reader, ReapSelect, ReapOne, ReapOneRaises, Read, Commit, Raise
<1>6. Crash \/ UNCHANGED vars => disk' = disk
  BY DEF Crash, vars
<1> QED
  BY <1>2, <1>3, <1>4, <1>5, <1>6 DEF Next

LEMMA NextVInv ==
  ASSUME VInv, [Next]_vars
  PROVE  VInv' /\ SeesStep
<1>1. LInv' /\ Clean' /\ TypeOK /\ db \in Store /\ faults \in Nat
  BY NextLInv, NextClean DEF VInv, LInv, IInv, TypeOK
<1>2. ClientKeeps
  <2>1. ASSUME db' = db PROVE ClientKeeps
    <3>1. \A q \in Runs : Alike(db', db, q)
      BY <2>1 DEF Alike, Same
    <3> QED
      BY <3>1, ClientSeesNothing
  <2>2. ASSUME NEW r \in Runs, Request(r) PROVE ClientKeeps
    <3>1. ASSUME pc[r] = "unborn", db' = InsertJob(db, r) PROVE ClientKeeps
      <4>1. db.row[r].status = "absent" /\ ~db.row[r].results
        BY <3>1 DEF VInv, LInv, RowInv, Placed, Shown
      <4>2. db.row[r].results = FALSE
        BY <1>1, <4>1, RowTypes
      <4>3. /\ \A q \in Runs \ {r} : Alike(db', db, q)
            /\ db'.row[r].status = "pending" /\ db'.events = db.events
            /\ db'.row[r].results = FALSE
        <5>1. "none" \in Error
          BY DEF Error
        <5>2. /\ \A q \in Runs \ {r} : Alike(InsertJob(db, r), db, q)
              /\ InsertJob(db, r).row[r].status = "pending"
          BY <1>1, <5>1, RowEffects
        <5>3. /\ InsertJob(db, r).events = db.events
              /\ InsertJob(db, r).row[r].results = FALSE
          BY <1>1, <5>1, StatementEffects
        <5> QED
          BY <3>1, <5>2, <5>3
      <4> QED
        BY <4>1, <4>2, <4>3, ClientSeesCreate
    <3>2. CASE CreateJob(r)
      BY <3>1, <3>2 DEF CreateJob, Commit
    <3>3. CASE CreateJobRaises(r)
      <4>1. pc[r] = "unborn" /\ Raise({db, InsertJob(db, r)})
        BY <3>3 DEF CreateJobRaises
      <4> QED
        BY <2>1, <3>1, <4>1, FailedWriteServes
    <3>4. CASE StartJob(r)
      BY <2>1, <3>4 DEF StartJob
    <3> QED
      BY <2>2, <3>2, <3>3, <3>4 DEF Request
  <2>3. ASSUME NEW r \in Runs, Worker(r) PROVE ClientKeeps
    BY <2>3, WorkerServes
  <2>4. ASSUME NEW r \in Runs, GrowStale(r) PROVE ClientKeeps
    <3>1. db' = Age(db, r)
      BY <2>4 DEF GrowStale
    <3>2. \A q \in Runs : Alike(db', db, q)
      BY <1>1, <3>1, RowEffects DEF Error
    <3> QED
      BY <3>2, ClientSeesNothing
  <2>5. ASSUME NEW c \in Readers, Reader(c) PROVE ClientKeeps
    <3>1. CASE ReapSelect(c) \/ Read(c)
      BY <2>1, <3>1 DEF ReapSelect, Read
    <3>2. CASE ReapOne(c) \/ ReapOneRaises(c)
      <4>1. PICK r \in reader[c].todo :
              \/ Commit(SetFailed(db, r, "timeout"))
              \/ Raise({db, SetFailed(db, r, "timeout")})
        BY <3>2 DEF ReapOne, ReapOneRaises
      <4>2. r \in Runs /\ "timeout" \in Error
        BY <1>1, <2>5, <4>1 DEF TypeOK, ReaderState, Error
      <4>3. db' = SetFailed(db, r, "timeout") => ClientKeeps
        BY <4>2, ClientSeesFail
      <4>4. CASE Commit(SetFailed(db, r, "timeout"))
        BY <4>3, <4>4 DEF Commit
      <4>5. CASE Raise({db, SetFailed(db, r, "timeout")})
        BY <2>1, <4>3, <4>5, FailedWriteServes
      <4> QED
        BY <4>1, <4>4, <4>5
    <3> QED
      BY <2>5, <3>1, <3>2 DEF Reader
  <2>6. CASE Crash
    <3>1. db' = disk /\ faults' = faults
      BY <2>6 DEF Crash
    <3>2. CASE faults = 0
      BY <2>1, <3>1, <3>2 DEF VInv, Clean
    <3>3. CASE faults > 0
      BY <3>1, <3>3, ClientFallsBack
    <3> QED
      BY <1>1, <3>2, <3>3
  <2>7. CASE UNCHANGED vars
    BY <2>1, <2>7 DEF vars
  <2> QED
    BY <2>2, <2>3, <2>4, <2>5, <2>6, <2>7 DEF Next
<1>3. \A q \in Runs : Queued(db, q)' /\ Queued(disk, q)'
  BY <1>2, QueuedOnDisk DEF ClientKeeps
<1> QED
  BY <1>1, <1>2, <1>3 DEF VInv, ClientKeeps

LEMMA ViewIsServed ==
  ASSUME VInv
  PROVE  Served!ServerInit
<1>1. TypeOK
  BY DEF VInv, LInv, IInv
<1>2. ASSUME NEW r \in Runs
      PROVE  /\ db.row[r].status \in Status
             /\ db.events[r] \in 0..Decisions(r)
             /\ db.row[r].results \in BOOLEAN
             /\ db.row[r].status \in {"absent", "pending"} => db.events[r] = 0
             /\ db.row[r].status = "completed" => db.row[r].results
             /\ db.row[r].results => db.events[r] = Decisions(r)
             /\ db.row[r].results => db.row[r].status \in {"completed", "failed"}
  <2>1. RunInv(r) /\ RowInv(r) /\ Queued(db, r)
    BY DEF VInv, LInv, IInv
  <2>2. /\ db.row[r].status \in Status /\ db.events[r] \in Nat
        /\ db.row[r].results \in BOOLEAN /\ Decisions(r) \in Nat
    BY <1>1, RowTypes, DecisionsNat
  <2>3. db.events[r] \in 0..Decisions(r)
    BY <2>1, <2>2 DEF RunInv, Ahead
  <2>4. db.row[r].status \in {"absent", "pending"} => db.events[r] = 0
    BY <2>1 DEF RowInv, Shown, Queued
  <2>5. db.row[r].results => db.events[r] = Decisions(r)
    BY <2>1, <2>2 DEF RunInv, Audited, Ahead
  <2>6. /\ db.row[r].status = "completed" => db.row[r].results
        /\ db.row[r].status \in {"absent", "pending", "running"} => ~db.row[r].results
    BY <2>1 DEF RowInv, Shown
  <2>7. db.row[r].results => db.row[r].status \in {"completed", "failed"}
    BY <2>2, <2>6 DEF Status
  <2> QED
    BY <2>2, <2>3, <2>4, <2>5, <2>6, <2>7
<1> DEFINE length == [r \in Runs |-> Decisions(r)]
<1>3. \A r \in Runs : db.events[r] \in UNION {0..length[q] : q \in Runs}
  <2> SUFFICES ASSUME NEW r \in Runs PROVE \E q \in Runs : db.events[r] \in 0..length[q]
    OBVIOUS
  <2> QED
    BY <1>2
<1>4. \A r \in Runs : db.events[r] <= length[r]
  BY <1>2, DecisionsNat
<1> QED
  BY <1>2, <1>3, <1>4 DEF Served!ServerInit, Served!Terminal, Status

\* Whatever threads, sweeps, failed writes and crashes do, what clients are
\* served is ServedRuns, the server that the pages are checked against: no
\* thread that runs late, no sweep that reaps in between, no half-failed write
\* and no restart shows them a state or a step it lacks, except that after a
\* failed write they can be taken back to what was last committed.
THEOREM StoreServesRuns == Spec => ServesTheRuns
<1>1. Init => VInv
  <2>1. Init => LInv /\ Clean
    BY InitLInv DEF Init, Clean, Empty
  <2>2. Init => \A r \in Runs : Queued(db, r) /\ Queued(disk, r)
    BY DEF Init, Empty, NoRow, Queued
  <2> QED
    BY <2>1, <2>2 DEF VInv
<1>2. VInv /\ [Next]_vars => VInv'
  BY NextVInv
<1>3. VInv => Served!ServerInit
  BY ViewIsServed
<1>4. VInv /\ [Next]_vars =>
        [(\E r \in Runs : Served!ServerStep(r)) \/ FallsBack]_(Served!server)
  BY NextVInv DEF SeesStep
<1> QED
  BY <1>1, <1>2, <1>3, <1>4, PTL DEF Spec, ServesTheRuns

\* Both views of the one store at once.
THEOREM StoreImplementsBothViews == Spec => ImplementsBothViews
BY StoreImplementsLedger, StoreServesRuns DEF ImplementsBothViews

-----------------------------------------------------------------------------
(***************************************************************************)
(* The event stream, for every set of streams.  Every step of the streams  *)
(* is a step of the store or leaves it alone, so the invariants proved     *)
(* above hold here too, and the proofs below build on them.                *)
(***************************************************************************)
USE LoopAssumption, NobodyAssumption

-----------------------------------------------------------------------------
(* The streams are readers of the store.                                   *)

LEMMA StreamStep ==
  ASSUME [StreamNext]_allVars
  PROVE  [Next]_vars
<1>1. CASE Others
  BY <1>1 DEF Others, Next, Reader
<1>2. ASSUME NEW s \in Streams, Streaming(s) PROVE [Next]_vars
  BY <1>2 DEF Streaming, Open, Check, Poll, Deliver, Break, Next, Reader
<1>3. ASSUME NEW s \in Streams, Disconnect(s) PROVE [Next]_vars
  BY <1>3 DEF Disconnect
<1>4. CASE CrashStreams
  BY <1>4 DEF CrashStreams, Next
<1>5. CASE UNCHANGED allVars
  BY <1>5 DEF allVars
<1> QED
  BY <1>1, <1>2, <1>3, <1>4, <1>5 DEF StreamNext

-----------------------------------------------------------------------------
(***************************************************************************)
(* What the event log of a run can do under a stream that is reading it.   *)
(* While the thread of the run is at work the log only grows.  Once it has *)
(* stopped, the log grows no more, but it can still shrink: an event that  *)
(* a failed write left on the connection is visible until a rollback takes *)
(* it back.                                                                *)
(***************************************************************************)

Ended == {"failing", "done"}

LEMMA EndedIsFinal ==
  ASSUME IInv, [Next]_vars, NEW r \in Runs, pc[r] \in Ended
  PROVE  pc'[r] \in Ended /\ db'.events[r] <= db.events[r]
<1>1. TypeOK /\ RunInv(r) /\ db.events[r] \in Nat /\ disk.events[r] \in Nat
  BY RowTypes DEF IInv
<1>2. Kept(r) => db'.events[r] <= db.events[r]
  BY <1>1 DEF Kept, Same, RunInv, Ahead
<1>3. CASE Aside(r)
  BY <1>2, <1>3 DEF Aside, Ended
<1>4. CASE Worker(r)
  <2>1. RecordFailure(r) \/ RecordFailureRaises(r)
    BY <1>4 DEF Worker, Ended, BeginRun, BeginRunRaises, AppendEvent,
       AppendEventRaises, Deciding, BeginAgentStage, EndAgentStage,
       RecordAuditEntries, RecordAuditEntriesRaises, CompleteRun,
       CompleteRunRaises, PipelineRaises, Working
  <2>2. pc'[r] = "done"
    BY <1>1, <2>1, GotoEffect DEF RecordFailure, RecordFailureRaises
  <2>3. /\ Same(SetFailed(db, r, "exception"), db, r)
        /\ Same(db, db, r)
    <3>1. db \in Store /\ 0 \in Nat /\ "exception" \in Error
      BY <1>1 DEF TypeOK, Error
    <3>2. Same(SetFailed(db, r, "exception"), db, r)
      BY <3>1, StatementEffects
    <3> QED
      BY <3>2 DEF Same
  <2>4. Kept(r)
    BY <2>1, <2>3, CommitKeeps, RaiseKeeps
       DEF RecordFailure, RecordFailureRaises
  <2> QED
    BY <1>2, <2>2, <2>4 DEF Ended
<1>5. CASE Request(r)
  BY <1>5 DEF Request, CreateJob, CreateJobRaises, StartJob, Ended
<1> QED
  BY <1>1, <1>3, <1>4, <1>5, OwnOrAside

LEMMA DecidedGrows ==
  ASSUME TypeOK, [Next]_vars, NEW r \in Runs
  PROVE  decided'[r] \in Nat /\ decided[r] <= decided'[r]
<1>1. decided \in [Runs -> Nat]
  BY DEF TypeOK
<1>2. CASE Aside(r)
  BY <1>1, <1>2 DEF Aside
<1>3. CASE Request(r)
  BY <1>1, <1>3 DEF Request, CreateJob, CreateJobRaises, StartJob
<1>4. CASE Worker(r)
  BY <1>1, <1>4 DEF Worker, BeginRun, BeginRunRaises, AppendEvent,
     AppendEventRaises, Decide, BeginAgentStage, EndAgentStage,
     RecordAuditEntries, RecordAuditEntriesRaises, CompleteRun,
     CompleteRunRaises, PipelineRaises, RecordFailure, RecordFailureRaises
<1> QED
  BY <1>2, <1>3, <1>4, OwnOrAside

LEMMA LogGrowsAtWork ==
  ASSUME IInv, [Next]_vars, NEW r \in Runs, pc'[r] \notin Ended
  PROVE  pc[r] \notin Ended /\ db.events[r] <= db'.events[r]
<1>1. pc[r] \notin Ended
  BY EndedIsFinal
<1>2. TypeOK /\ TypeOK' /\ RunInv(r) /\ RunInv(r)'
  BY NextIInv DEF IInv
<1>3. pc[r] \in ThreadState /\ pc'[r] \in ThreadState
  BY <1>2 DEF TypeOK
<1>4. db.events[r] = decided[r] /\ db'.events[r] = decided'[r]
  BY <1>1, <1>2, <1>3 DEF RunInv, InStep, Unaudited, Ended, ThreadState
<1> QED
  BY <1>1, <1>2, <1>4, DecidedGrows

-----------------------------------------------------------------------------
(* What a client has received is always a prefix of 1, 2, 3, ...           *)

UpTo(n) == [i \in 1..n |-> i]

\* The slice events[sent:] continues the prefix, and is empty when the list
\* has become shorter than the cursor.
LEMMA UnsentContinues ==
  ASSUME NEW m \in Nat, NEW n \in Nat
  PROVE  /\ Len(UpTo(m)) = m
         /\ m <= n => UpTo(m) \o Unsent(m, n) = UpTo(n)
         /\ \A k \in Nat : n <= k => UpTo(m) \o Unsent(k, n) = UpTo(m)
<1>1. UpTo(m) \in Seq(Nat) /\ Len(UpTo(m)) = m
  BY DEF UpTo
<1>2. ASSUME m <= n PROVE UpTo(m) \o Unsent(m, n) = UpTo(n)
  <2>1. Unsent(m, n) \in Seq(Nat) /\ Len(Unsent(m, n)) = n - m
    BY <1>2 DEF Unsent
  <2> QED
    BY <1>1, <1>2, <2>1 DEF Unsent, UpTo
<1>3. ASSUME NEW k \in Nat, n <= k PROVE UpTo(m) \o Unsent(k, n) = UpTo(m)
  <2>1. Unsent(k, n) = <<>>
    BY <1>3 DEF Unsent
  <2> QED
    BY <1>1, <2>1
<1> QED
  BY <1>1, <1>2, <1>3
-----------------------------------------------------------------------------
(***************************************************************************)
(* InOrderExactlyOnce and CompletedMeansAll are not inductive.  The cursor *)
(* of the generator is set from the length of the list it was shown, and   *)
(* that can go back (see above), so the invariant says how cursor, list    *)
(* and received events are related while the run is at work, and that a    *)
(* cursor that has gone back never finds anything to send again.           *)
(***************************************************************************)

At == {"new", "checking", "sleeping", "polling", "closed"}

StreamState == [at: At, run: Runs, sent: Nat, got: {UpTo(n) : n \in Nat},
                told: {"none"} \cup Terminal]

\* events is the length of the run's list, audit that of its audit log, and
\* place where its thread is.
Reading(st, events, audit, place) ==
  /\ st.sent <= Len(st.got)
  /\ Len(st.got) <= Decisions(st.run)
  /\ place \notin Ended => st.sent = Len(st.got) /\ st.sent <= events
  /\ st.sent < Len(st.got) => events <= st.sent
  /\ st.told = "completed" => /\ Len(st.got) = Decisions(st.run)
                              /\ audit = Decisions(st.run)

ReadingNow(st) ==
  Reading(st, db.events[st.run], disk.audit[st.run], pc[st.run])

SInv == /\ LInv
        /\ stream \in [Streams -> StreamState]
        /\ \A s \in Streams : ReadingNow(stream[s])

\* Whatever happens in the store, a stream that is sent nothing is as well
\* off as before.
LEMMA StoreKeepsReading ==
  ASSUME LInv, [Next]_vars, NEW st \in StreamState, ReadingNow(st)
  PROVE  Reading(st, db'.events[st.run], disk'.audit[st.run], pc'[st.run])
<1> DEFINE r == st.run
           m == Len(st.got)
<1>1. r \in Runs /\ st.sent \in Nat /\ m \in Nat
  BY UnsentContinues DEF StreamState
<1>2. IInv /\ IInv' /\ RunInv(r) /\ RunInv(r)' /\ Durable(r)
  BY <1>1, NextIInv DEF LInv, IInv
<1>3. /\ db.events[r] \in Nat /\ db'.events[r] \in Nat
      /\ disk.audit[r] \in Nat /\ disk'.audit[r] \in Nat /\ db'.audit[r] \in Nat
      /\ Decisions(r) \in Nat
  BY <1>1, <1>2, DecisionsNat DEF IInv, TypeOK, Store
<1>4. /\ pc[r] \in Ended => pc'[r] \in Ended /\ db'.events[r] <= db.events[r]
      /\ pc'[r] \notin Ended => pc[r] \notin Ended /\ db.events[r] <= db'.events[r]
  BY <1>1, <1>2, EndedIsFinal, LogGrowsAtWork
<1>5. disk.audit[r] <= disk'.audit[r] /\ disk'.audit[r] <= Decisions(r)
  BY <1>2, <1>3 DEF Durable, RunInv, Ahead, Decisions
<1>6. pc'[r] \notin Ended => st.sent = m /\ st.sent <= db'.events[r]
  BY <1>1, <1>3, <1>4 DEF ReadingNow, Reading
<1>7. st.sent < m => db'.events[r] <= st.sent
  BY <1>1, <1>3, <1>4 DEF ReadingNow, Reading
<1>8. st.told = "completed" => m = Decisions(r) /\ disk'.audit[r] = Decisions(r)
  BY <1>3, <1>5 DEF ReadingNow, Reading
<1> QED
  BY <1>6, <1>7, <1>8 DEF ReadingNow, Reading

\* A poll: the snapshot is turned into what is sent.
LEMMA TurnKeepsReading ==
  ASSUME LInv, NEW st \in StreamState, ReadingNow(st), NEW now,
         now = Turn(st, db.row[st.run], db.events[st.run])
  PROVE  now \in StreamState /\ ReadingNow(now)
<1> DEFINE r == st.run
           row == db.row[r]
           n == db.events[r]
<1>1. PICK m \in Nat : st.got = UpTo(m) /\ Len(st.got) = m
  BY UnsentContinues DEF StreamState
<1>2. /\ r \in Runs /\ st.sent \in Nat /\ st.at \in At
      /\ st.told \in {"none"} \cup Terminal
  BY DEF StreamState
<1>3. TypeOK /\ RunInv(r) /\ RowInv(r)
  BY <1>2 DEF LInv, IInv
<1>4. /\ n \in Nat /\ disk.events[r] \in Nat /\ row.status \in Status
      /\ Decisions(r) \in Nat
  BY <1>2, <1>3, RowTypes, DecisionsNat
<1>5. /\ st.sent <= m /\ m <= Decisions(r)
      /\ pc[r] \notin Ended => st.sent = m /\ st.sent <= n
      /\ st.sent < m => n <= st.sent
  BY <1>1 DEF ReadingNow, Reading
<1>6. n <= Decisions(r)
  BY <1>3 DEF RunInv, Ahead
<1>7. row.status = "completed" =>
        disk.audit[r] = Decisions(r) /\ n = Decisions(r)
  <2>1. row.status = "completed" => row.results
    BY <1>3 DEF RowInv, Shown
  <2> QED
    BY <1>3, <1>4, <2>1 DEF RunInv, Audited, Ahead
<1>8. CASE row.status = "absent"
  <2>1. now = [st EXCEPT !.at = "closed"]
    BY <1>8 DEF Turn, Close
  <2>2. now \in StreamState
    BY <2>1 DEF StreamState, At
  <2>3. /\ now.run = r /\ now.sent = st.sent /\ now.got = st.got
        /\ now.told = st.told
    BY <2>1 DEF StreamState
  <2> QED
    BY <2>2, <2>3 DEF ReadingNow, Reading
<1>9. CASE row.status # "absent"
  <2> DEFINE got == st.got \o Unsent(st.sent, n)
             told == IF row.status \in Terminal THEN row.status ELSE "none"
             at == IF row.status \in Terminal THEN "closed" ELSE "sleeping"
  <2>1. now = [st EXCEPT !.got = got, !.sent = n, !.told = told, !.at = at]
    BY <1>9 DEF Turn
  <2>2. told \in {"none"} \cup Terminal /\ at \in At
    BY DEF Terminal, At
  <2>3. told = "completed" => row.status = "completed"
    OBVIOUS
  <2>4. got = UpTo(m) \o Unsent(st.sent, n)
    BY <1>1
  <2> HIDE DEF got, told, at, row
  <2>5. n \in Nat /\ n = db.events[r]
    BY <1>4
  <2> HIDE DEF n
  <2>6. \/ got = UpTo(n)
        \/ n < m /\ got = UpTo(m) /\ pc[r] \in Ended
    <3>1. CASE st.sent = m /\ m <= n
      <4>1. got = UpTo(m) \o Unsent(m, n)
        BY <2>4, <3>1
      <4>2. UpTo(m) \o Unsent(m, n) = UpTo(n)
        BY <1>1, <2>5, <3>1, UnsentContinues
      <4> QED
        BY <4>1, <4>2
    <3>2. CASE n <= st.sent /\ n < m
      <4>1. got = UpTo(m)
        BY <1>1, <1>2, <2>4, <2>5, <3>2, UnsentContinues
      <4>2. pc[r] \in Ended
        BY <1>1, <1>2, <1>5, <2>5, <3>2
      <4> QED
        BY <3>2, <4>1, <4>2
    <3> QED
      BY <1>1, <1>2, <1>5, <2>5, <3>1, <3>2
  <2>7. \/ Len(got) = n
        \/ n < Len(got) /\ Len(got) = m /\ pc[r] \in Ended
    BY <1>1, <2>5, <2>6, UnsentContinues
  <2>8. now \in StreamState
    <3>1. got \in {UpTo(k) : k \in Nat}
      BY <1>1, <2>5, <2>6
    <3> QED
      BY <2>1, <2>2, <2>5, <3>1 DEF StreamState
  <2>9. /\ now.run = r /\ now.sent = n /\ now.got = got /\ now.told = told
    BY <2>1 DEF StreamState
  <2>10. told = "completed" =>
           Len(got) = Decisions(r) /\ disk.audit[r] = Decisions(r)
    BY <1>1, <1>4, <1>5, <1>6, <1>7, <2>3, <2>5, <2>7
  <2>11. Len(got) \in Nat /\ n <= Len(got) /\ Len(got) <= Decisions(r)
    BY <1>1, <1>4, <1>5, <1>6, <2>5, <2>7
  <2>12. pc[r] \notin Ended => n = Len(got)
    BY <2>7
  <2> QED
    BY <2>5, <2>8, <2>9, <2>10, <2>11, <2>12 DEF ReadingNow, Reading
<1> QED
  BY <1>8, <1>9

LEMMA InitSInv == StreamInit => SInv
<1> SUFFICES ASSUME StreamInit PROVE SInv
  OBVIOUS
<1>1. LInv
  BY InitLInv DEF StreamInit
<1>2. UpTo(0) = <<>>
  BY DEF UpTo
<1>3. ASSUME NEW s \in Streams
      PROVE  stream[s] \in StreamState /\ ReadingNow(stream[s])
  <2>1. PICK r \in Runs :
          stream[s] = [at |-> "new", run |-> r, sent |-> 0, got |-> <<>>,
                       told |-> "none"]
    BY DEF StreamInit
  <2>2. <<>> \in {UpTo(n) : n \in Nat}
    BY <1>2
  <2>3. pc[r] = "unborn" /\ db.events[r] = 0 /\ Decisions(r) \in Nat
    BY DecisionsNat DEF StreamInit, Init, Empty
  <2> QED
    BY <2>1, <2>2, <2>3 DEF StreamState, At, ReadingNow, Reading
<1>4. stream \in [Streams -> StreamState]
  BY <1>3 DEF StreamInit
<1> QED
  BY <1>1, <1>3, <1>4 DEF SInv

\* What a step does to one stream: nothing, a change of place, or a turn.
LEMMA StreamSteps ==
  ASSUME stream \in [Streams -> StreamState], [StreamNext]_allVars,
         NEW s \in Streams
  PROVE  \/ stream'[s] = stream[s]
         \/ \E at \in At : stream'[s] = [stream[s] EXCEPT !.at = at]
         \/ /\ stream'[s] = Turn(stream[s], db.row[stream[s].run],
                                 db.events[stream[s].run])
            /\ UNCHANGED <<db, disk, pc>>
<1> USE DEF At
<1>1. CASE Others \/ UNCHANGED allVars
  BY <1>1 DEF Others, streamVars, allVars
<1>2. CASE CrashStreams
  BY <1>2 DEF CrashStreams, Close
<1>3. ASSUME NEW t \in Streams, Streaming(t) \/ Disconnect(t), t # s
      PROVE  stream'[s] = stream[s]
  BY <1>3 DEF Streaming, Open, Check, Poll, Deliver, Break, Disconnect
<1>4. CASE Open(s) \/ Check(s) \/ Poll(s) \/ Break(s) \/ Disconnect(s)
  <2>1. \E at \in At : stream' = [stream EXCEPT ![s].at = at]
    BY <1>4 DEF Open, Check, Poll, Break, Disconnect, Close
  <2> QED
    BY <2>1
<1>5. CASE Deliver(s)
  BY <1>5 DEF Deliver, Read
<1> QED
  BY <1>1, <1>2, <1>3, <1>4, <1>5 DEF StreamNext, Streaming

LEMMA NextSInv ==
  ASSUME SInv, [StreamNext]_allVars
  PROVE  SInv'
<1>1. [Next]_vars
  BY StreamStep
<1>2. LInv /\ LInv' /\ stream \in [Streams -> StreamState]
  BY <1>1, NextLInv DEF SInv
<1>3. ASSUME NEW s \in Streams
      PROVE  stream'[s] \in StreamState /\ ReadingNow(stream[s])'
  <2>1. stream[s] \in StreamState /\ ReadingNow(stream[s])
    BY <1>2 DEF SInv
  <2>2. Reading(stream[s], db'.events[stream[s].run],
                disk'.audit[stream[s].run], pc'[stream[s].run])
    BY <1>1, <1>2, <2>1, StoreKeepsReading
  <2>3. CASE stream'[s] = stream[s]
    BY <2>1, <2>2, <2>3 DEF ReadingNow
  <2>4. ASSUME NEW at \in At, stream'[s] = [stream[s] EXCEPT !.at = at]
        PROVE  stream'[s] \in StreamState /\ ReadingNow(stream[s])'
    <3>1. /\ stream'[s].run = stream[s].run /\ stream'[s].sent = stream[s].sent
          /\ stream'[s].got = stream[s].got /\ stream'[s].told = stream[s].told
          /\ stream'[s] \in StreamState
      BY <2>1, <2>4 DEF StreamState
    <3> QED
      BY <2>2, <3>1 DEF ReadingNow, Reading, Decisions
  <2>5. CASE /\ stream'[s] = Turn(stream[s], db.row[stream[s].run],
                                  db.events[stream[s].run])
             /\ UNCHANGED <<db, disk, pc>>
    <3>1. stream'[s] \in StreamState /\ ReadingNow(stream'[s])
      BY <1>2, <2>1, <2>5, TurnKeepsReading
    <3> QED
      BY <2>5, <3>1 DEF ReadingNow, Reading, Decisions
  <2> QED
    BY <1>2, <2>3, <2>4, <2>5, StreamSteps
<1>4. stream' \in [Streams -> StreamState]
  <2>1. stream' = [s \in Streams |-> stream'[s]]
    BY <1>2 DEF StreamNext, Others, Streaming, Open, Check, Poll, Deliver,
       Break, Disconnect, CrashStreams, allVars, streamVars
  <2> QED
    BY <1>3, <2>1
<1> QED
  BY <1>2, <1>3, <1>4 DEF SInv

LEMMA InvariantSInv == StreamSpec => []SInv
<1>1. SInv /\ [StreamNext]_allVars => SInv'
  BY NextSInv
<1> QED
  BY InitSInv, <1>1, PTL DEF StreamSpec

\* However a client's polls fall between the writes of the worker, and
\* whatever fails or is rolled back between two of them, the client receives
\* the run's events in order, each once, with no gap.
THEOREM EventsArriveInOrder == StreamSpec => []InOrderExactlyOnce
<1>1. SInv => InOrderExactlyOnce
  BY DEF SInv, StreamState, UpTo, InOrderExactlyOnce
<1> QED
  BY InvariantSInv, <1>1, PTL

\* A client that is told its run completed has been sent every decision, and
\* from then on the audit log is complete on disk.
THEOREM CompletedIsComplete == StreamSpec => []CompletedMeansAll
<1>1. SInv => CompletedMeansAll
  BY DEF SInv, ReadingNow, Reading, CompletedMeansAll
<1> QED
  BY InvariantSInv, <1>1, PTL
=============================================================================
