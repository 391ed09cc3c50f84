----------------------------- MODULE MCSnowflake -----------------------------
(***************************************************************************)
(* Snowflake with two processes on the least worker ids and one bit of     *)
(* sequence, so that a millisecond is soon full.                           *)
(***************************************************************************)
EXTENDS Snowflake

CONSTANTS g1, g2

MCWorkerID == [g \in {g1, g2} |-> IF g = g1 THEN 0 ELSE 1]
=============================================================================
