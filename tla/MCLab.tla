------------------------------- MODULE MCLab -------------------------------
(***************************************************************************)
(* Instances of Lab for TLC.                                               *)
(***************************************************************************)
EXTENDS Lab

\* The one subscriber's first session is in the second slice.
UeSlice == [u \in UeIds |-> "slice2"]

\* Until Tear down is clicked the buttons keep to one action at a time on a target or a UE
\* (DashboardPage.tsx:366, UeInstancesPanel.tsx:42).
ActionsApart == LabTypeOK /\ OneActionEach

=============================================================================
