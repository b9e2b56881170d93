----------------------------- MODULE ServedRuns ------------------------------
(***************************************************************************)
(* The runs of RunStore as a client of the REST API sees them.  A step is  *)
(* one commit of the store; threads, readers and transactions are behind   *)
(* it.  A run that was reaped too early goes on: 'failed' is not final.    *)
(* A failed write serves what its statements left on the connection; that  *)
(* RunStore may take back again, to what was last committed, is the one    *)
(* step it has beside these (RunStoreRefinement!FallsBack).                *)
(***************************************************************************)
EXTENDS Integers, Sequences, FiniteSets

CONSTANTS Runs, Length          \* Length: decisions of a run

ASSUME LengthAssumption == Length \in [Runs -> Nat]

VARIABLES phase,                \* jobs.status
          log,                  \* rows of job_events
          published             \* results_json is set

server == <<phase, log, published>>

Terminal == {"completed", "failed"}

\* A page can be opened at any time.
ServerInit ==
  /\ phase \in [Runs -> {"absent", "pending", "running", "completed", "failed"}]
  /\ log \in [Runs -> UNION {0..Length[r] : r \in Runs}]
  /\ published \in [Runs -> BOOLEAN]
  /\ \A r \in Runs : /\ log[r] <= Length[r]
                     /\ phase[r] \in {"absent", "pending"} => log[r] = 0
                     /\ phase[r] = "completed" => published[r]
                     /\ published[r] => log[r] = Length[r] /\ phase[r] \in Terminal

Become(r, status) == phase' = [phase EXCEPT ![r] = status]

Create(r) == phase[r] = "absent" /\ Become(r, "pending") /\ UNCHANGED <<log, published>>

Start(r) == /\ phase[r] = "pending" \/ (phase[r] = "failed" /\ log[r] = 0)
            /\ Become(r, "running") /\ UNCHANGED <<log, published>>

Decide(r) == /\ phase[r] \in {"running", "failed"} /\ log[r] < Length[r]
             /\ log' = [log EXCEPT ![r] = @ + 1]
             /\ UNCHANGED <<phase, published>>

Publish(r) == /\ phase[r] \in {"running", "failed"} /\ log[r] = Length[r] /\ ~published[r]
              /\ published' = [published EXCEPT ![r] = TRUE]
              /\ Become(r, "completed") /\ UNCHANGED log

\* The run's own handler or the reaper, which can be late too.
Fail(r) == phase[r] \in {"pending", "running", "completed"} /\ Become(r, "failed") /\ UNCHANGED <<log, published>>

ServerStep(r) == Create(r) \/ Start(r) \/ Decide(r) \/ Publish(r) \/ Fail(r)
=============================================================================
