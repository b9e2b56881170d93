----------------------------- MODULE RunLedger ------------------------------
(***************************************************************************)
(* What the job store promises about one run after another, whatever       *)
(* happens to the process: the durable life of a run, with no threads, no  *)
(* readers, no open transactions and no crashes in it.                     *)
(*                                                                         *)
(* phase[r] is the status a restart would find, entries[r] the decisions   *)
(* in its audit log, published[r] whether its results are stored.          *)
(***************************************************************************)
EXTENDS Integers

CONSTANTS Runs, Total

VARIABLES phase, entries, published

run(r) == <<phase[r], entries[r], published[r]>>

Init ==
  /\ phase = [r \in Runs |-> "absent"]
  /\ entries = [r \in Runs |-> 0]
  /\ published = [r \in Runs |-> FALSE]

Created(r) ==
  /\ phase[r] = "absent"
  /\ run(r)' = <<"pending", entries[r], published[r]>>

\* A run that was reaped while its thread was waiting starts all the same.
Started(r) ==
  /\ phase[r] \in {"pending", "failed"}
  /\ run(r)' = <<"running", entries[r], published[r]>>

Recorded(r) ==
  /\ phase[r] \in {"running", "failed"}
  /\ entries[r] = 0
  /\ run(r)' = <<phase[r], Total[r], published[r]>>

\* Results come out once, over a complete audit log.
Published(r) ==
  /\ phase[r] \in {"running", "failed"}
  /\ entries[r] = Total[r]
  /\ ~published[r]
  /\ run(r)' = <<"completed", entries[r], TRUE>>

\* What a failed write left on the connection reaches the disk with somebody
\* else's commit: part of the audit log, never of a log that is complete.
Leaked(r) ==
  /\ phase[r] \in {"running", "failed"}
  /\ entries[r] = 0
  /\ \E n \in 0..Total[r] : run(r)' = <<phase[r], n, published[r]>>

\* The reaper or the run's own exception handler, with or without what the
\* failed write left behind.
Failed(r) ==
  \E n \in 0..Total[r], out \in BOOLEAN :
    /\ n = entries[r] \/ entries[r] = 0
    /\ out = published[r] \/ (out /\ entries[r] = Total[r])
    /\ run(r)' = <<"failed", n, out>>

Step(r) ==
  \/ Created(r) \/ Started(r) \/ Recorded(r) \/ Published(r)
  \/ Leaked(r) \/ Failed(r)

\* One commit can carry steps of several runs.
Next ==
  /\ phase' = [r \in Runs |-> phase'[r]]
  /\ entries' = [r \in Runs |-> entries'[r]]
  /\ published' = [r \in Runs |-> published'[r]]
  /\ \A r \in Runs : Step(r) \/ UNCHANGED run(r)

Spec == Init /\ [][Next]_<<phase, entries, published>>
=============================================================================
