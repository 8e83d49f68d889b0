----------------------------- MODULE MCPipeline -----------------------------
(***************************************************************************)
(* Instances of Pipeline for TLC, one of which is chosen at the start:     *)
(* "load" has two throughput UEs that share one of two gNBs, and           *)
(* registrations retried once; "cycles" has a throughput and a             *)
(* control-plane UE on a gNB that may be lost, and N2 setups, PDU sessions *)
(* and deregistrations retried once.                                       *)
(***************************************************************************)
EXTENDS Pipeline, TLC

CONSTANTS g1, g2, u1, u2, u3     \* gNBs and UEs

VARIABLE instance

AllRetries(retried) == [s \in Stages |-> IF s \in retried THEN 1 ELSE 0]
AllInFlight(n) == [s \in Stages |-> n]

\* Retries and MaxInFlight of "cycles", the instance the cfg describes.
CycleRetries  == AllRetries({"n2", "pdu", "dereg"})
CycleInFlight == AllInFlight(1)
CycleGnb      == [u \in Ues |-> g1]

Load == INSTANCE Pipeline WITH
    Gnbs <- {g1, g2}, Tp <- {u1, u2}, Cp <- {}, GnbOf <- [u \in {u1, u2} |-> g1],
    Retries <- AllRetries({"reg"}), MaxInFlight <- AllInFlight(2), MayLose <- {}

mcVars == <<instance, vars>>

MCInit ==
    \/ instance = "load" /\ Load!Init
    \/ instance = "cycles" /\ Init
MCNext ==
    /\ UNCHANGED instance
    /\ \/ instance = "load" /\ Load!Next
       \/ instance = "cycles" /\ Next

\* Only the instance the cfg describes.
CyclesSpec == instance = "cycles" /\ Init /\ [][MCNext]_mcVars

\* Ready goroutines run, and every attempt has a timeout (Pipeline's FairSpec).
MCSpec ==
    /\ MCInit /\ [][MCNext]_mcVars
    /\ WF_vars(instance = "cycles" /\ Execute)
    /\ \A s \in Stages : WF_vars(instance = "cycles" /\ Dispatcher(s))
    /\ \A g \in Gnbs : /\ WF_vars(instance = "cycles" /\ GnbAttemptEnds(g))
                       /\ WF_vars(instance = "cycles" /\ Watcher(g))
    /\ \A u \in Ues : WF_vars(instance = "cycles" /\ UeAttemptEnds(u))

-----------------------------------------------------------------------------
\* "nas and link, which only the UE's current attempt touches" (ueRun): no gNB or UE is
\* queued twice or has two attempts, and no card counts one twice, whatever retries and
\* hand-overs between stages a Stop cuts through.
OnePlaceEach ==
    /\ instance = "load" => Load!TypeOK /\ Load!OnePlace /\ Load!CountedOnce
    /\ instance = "cycles" => TypeOK /\ OnePlace /\ CountedOnce

\* A stopped run leaves nothing behind: unless cleanup was aborted no UE keeps its link,
\* no association stays open, and the UEs counted failed are those of the failure list
\* (deregisterAll, closeConns and watchAssociation in controller.go).
NothingLeft ==
    /\ instance = "load" => Load!CleanedUp /\ Load!FailedAreListed /\ Load!ConnsClosed
    /\ instance = "cycles" => CleanedUp /\ FailedAreListed /\ ConnsClosed

\* skipUnfinished's comment: after Stop each stage is Done, so its total time stops
\* growing, and no UE is left in a state that still promises something.
AllDoneWhenStopped ==
    /\ instance = "load" => Load!DoneWhenStopped
    /\ instance = "cycles" => DoneWhenStopped

\* The control-plane test starts once every throughput UE has its final PDU outcome
\* (tpLeft and tpDone, controller.go).
CyclesAfterLoad == instance = "cycles" => LoadBeforeCycles

\* A run asked to stop stops, in whichever phase, and unless it is stopped every
\* throughput UE gets its final PDU outcome: nothing is forgotten in a queue.
RunsEnd ==
    []<>(instance = "cycles" =>
            IF ctxDone THEN phase = "stopped" ELSE \A u \in Tp : pduDone[u])

=============================================================================
