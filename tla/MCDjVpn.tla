------------------------------- MODULE MCDjVpn -------------------------------
(***************************************************************************)
(* DjVpn for TLC.  Coroutines of one kind are interchangeable: no action   *)
(* and no property orders or names them.                                   *)
(***************************************************************************)
EXTENDS DjVpn, TLC

Symmetry == Permutations(Jobs) \cup Permutations(StopJobs)
=============================================================================
