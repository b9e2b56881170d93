----------------------------- MODULE MCLlmUsage -----------------------------
(* Three runs on one client; the first makes two calls. *)
EXTENDS LlmUsage

CONSTANTS u1

MCMaxCalls == [r \in Runs |-> IF r = u1 THEN 2 ELSE 1]
=============================================================================
