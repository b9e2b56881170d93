---------------------- MODULE ReconciliationRefinement ----------------------
(* A full run of Reconciliation implements Allocation. *)
EXTENDS Reconciliation

CONSTANT Nobody

\* A demo run discards decisions between the stages; what it promises instead
\* is DemoSample, and to the ledger it does nothing.

\* The transaction whose match was checked against row k, the last one if
\* several were.
OwnerOf(k) ==
  LET ds == {n \in DOMAIN matched : k \in matched[n].checked}
  IN  IF ds = {} THEN Nobody ELSE matched[Max(ds)].txn

Ledger == INSTANCE Allocation WITH
  rows <- DOMAIN bank,
  owner <- [k \in DOMAIN bank |-> IF IsDemo THEN Nobody ELSE OwnerOf(k)],
  decided <- IF IsDemo THEN {} ELSE {Decisions[n].txn : n \in DOMAIN Decisions}

\* In a full run, both stages, the agent's arbitrary proposals included, only ever take free
\* rows, for a transaction nobody has decided; nothing is ever undone.
ImplementsAllocation == Ledger!Spec
=============================================================================
