------------------------------ MODULE MCBrowser ------------------------------
(* A small instance of Browser for TLC. *)
EXTENDS Browser

CONSTANTS r1, r2

\* r1 makes two decisions, r2 only one.
MCLength == [r \in Runs |-> IF r = r1 THEN 2 ELSE 1]
=============================================================================
