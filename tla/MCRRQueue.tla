------------------------------ MODULE MCRRQueue ------------------------------
(***************************************************************************)
(* Instances of RRQueue for TLC.                                           *)
(***************************************************************************)
EXTENDS RRQueue, TLC

CONSTANTS g1, g2, g3, u1, u2, u3, u4, u5, p1, p2

\* u1 and u2 share g1; u3 and u4 are g2's; u5 is g3's.
Spread == [u \in Ues |-> CASE u \in {u1, u2} -> g1 [] u \in {u3, u4} -> g2 [] OTHER -> g3]

=============================================================================
