---------------------------- MODULE MCAuditChain ----------------------------
(***************************************************************************)
(* AuditChain on small sets.  Ids are ordered by the query, so only        *)
(* writers and organisations are interchangeable.                          *)
(***************************************************************************)
EXTENDS AuditChain, TLC

MCIds == 0 .. 2

Symmetry == Permutations(Writers) \cup Permutations(Orgs)
=============================================================================
