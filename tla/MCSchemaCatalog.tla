-------------------------- MODULE MCSchemaCatalog ---------------------------
(***************************************************************************)
(* SchemaCatalog for TLC.                                                  *)
(***************************************************************************)
EXTENDS SchemaCatalog, TLC

CONSTANTS q1, q2, q3, hostA, hostB

Symmetry == Permutations(Requests) \union Permutations(Hosts)
=============================================================================
