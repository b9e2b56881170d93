------------------------- MODULE RunStoreRefinement -------------------------
(***************************************************************************)
(* What RunStore promises, to two kinds of observers: to an auditor of the *)
(* disk it is the RunLedger, and to a client it is ServedRuns, the server  *)
(* that the browser modules are composed with.                             *)
(***************************************************************************)
EXTENDS RunStore

Ledger == INSTANCE RunLedger WITH
  Total <- [r \in Runs |-> Decisions(r)],
  phase <- [r \in Runs |-> disk.row[r].status],
  entries <- [r \in Runs |-> disk.audit[r]],
  published <- [r \in Runs |-> disk.row[r].results]

\* Every commit of the threaded, crashing, faulty store is a step of the
\* ledger for each run it touches, and everything else is invisible to it.
ImplementsLedger == Ledger!Spec

Served == INSTANCE ServedRuns WITH
  Length <- [r \in Runs |-> Decisions(r)],
  phase <- [r \in Runs |-> db.row[r].status],
  log <- [r \in Runs |-> db.events[r]],
  published <- [r \in Runs |-> db.row[r].results]

\* SQLite gave up the open transaction after a failed write, or the process
\* died with it open: clients are back at what was last committed.
FallsBack == faults' > 0 /\ db' = disk

\* Whatever the threads, sweeps, failed writes and crashes do, a page finds
\* the runs in a state that ServedRuns knows, and sees one run at a time make
\* a step of ServedRuns.  The one exception needs a write that has failed: what
\* it left on the connection is served, and can vanish again, for all runs at
\* once and for what is on disk.
ServesTheRuns ==
  /\ []Served!ServerInit
  /\ [][(\E r \in Runs : Served!ServerStep(r)) \/ FallsBack]_(Served!server)

\* The disk keeps the ledger, and the connection serves the runs.
ImplementsBothViews == ImplementsLedger /\ ServesTheRuns
=============================================================================
