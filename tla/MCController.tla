---------------------------- MODULE MCController ----------------------------
(***************************************************************************)
(* Instances of Controller for TLC.                                        *)
(***************************************************************************)
EXTENDS Controller, TLC

Symmetry == Permutations(Callers) \cup Permutations(IPs)

=============================================================================
