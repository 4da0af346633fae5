-------------------------------- MODULE MCDns --------------------------------
(***************************************************************************)
(* Dns with named queries and keys for TLC.                                *)
(***************************************************************************)
EXTENDS Dns, TLC

CONSTANTS q1, q2, q3, k1, k2

\* Keys are interchangeable, and so are the queries that a router may cancel
\* and those that it may not.
Symmetry == Permutations(Keys) \cup Permutations(Scoped) \cup Permutations(Queries \ Scoped)
=============================================================================
