----------------------------- MODULE Allocation -----------------------------
(***************************************************************************)
(* What a reconciliation run promises, with no stages, no agent and no     *)
(* verifier in it: every transaction is decided at most once, a match      *)
(* takes settlement rows nobody has, and what is taken is never given      *)
(* back or given away.                                                     *)
(***************************************************************************)
EXTENDS Integers

CONSTANT Nobody      \* the owner of a free row

VARIABLES
  rows,      \* the settlement rows of the statement
  owner,     \* owner[k]: the transaction row k is paid to
  decided    \* transactions that are matched or reported

Init ==
  /\ owner = [k \in rows |-> Nobody]
  /\ decided = {}

Free == {k \in rows : owner[k] = Nobody}

Match(t, ks) ==
  /\ t \notin decided
  /\ ks # {} /\ ks \subseteq Free
  /\ owner' = [k \in rows |-> IF k \in ks THEN t ELSE owner[k]]
  /\ decided' = decided \cup {t}
  /\ UNCHANGED rows

Report(t) ==
  /\ t \notin decided
  /\ decided' = decided \cup {t}
  /\ UNCHANGED <<rows, owner>>

Next ==
  \E t \in decided' \ decided : Report(t) \/ \E ks \in SUBSET rows : Match(t, ks)

Spec == Init /\ [][Next]_<<rows, owner, decided>>
=============================================================================
