---------------------------- MODULE MCDataplane ----------------------------
(***************************************************************************)
(* Instances of Dataplane for TLC: one sender per direction, one gNB.      *)
(***************************************************************************)
EXTENDS Dataplane

CONSTANTS sUl, sDl, rDl, UlPackets, DlPackets

OneUlShard == [u \in Ues |-> sUl]
OneDlShard == [u \in Ues |-> sDl]
OneGnb     == [u \in Ues |-> rDl]
Packets    == [d \in Dirs |-> IF d = "ul" THEN UlPackets ELSE DlPackets]

\* Once the engine is over, its counters hold every packet and its curve every sample
\* (publish and the sampler, engine.go).
NothingUncounted == TypeOK /\ CountersComplete /\ CurveCovers

=============================================================================
