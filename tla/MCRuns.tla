------------------------------- MODULE MCRuns -------------------------------
(***************************************************************************)
(* Instances of Controller for TLC about runs that end and runs that       *)
(* follow them, one of which is chosen at the start.  "stopped", the one   *)
(* the cfg describes: two clients start, stop and ping one run, a signal   *)
(* or the maximum duration may come at any moment, and the kernel may      *)
(* refuse to undo.  "edited": three runs one after another, the CPU        *)
(* allocation edited in between.                                           *)
(***************************************************************************)
EXTENDS Controller

CONSTANT c1      \* one of the callers

VARIABLE instance

Edited == INSTANCE Controller WITH
    Callers <- {c1}, Requests <- {"start", "stop", "setCpus"}, MaxRuns <- 3,
    Allocations <- {"all", "cp"}, Timed <- FALSE, UndoFails <- FALSE

mcVars == <<instance, vars>>

MCInit ==
    \/ instance = "stopped" /\ Init
    \/ instance = "edited" /\ Edited!Init
MCNext ==
    /\ UNCHANGED instance
    /\ \/ instance = "stopped" /\ Next
       \/ instance = "edited" /\ Edited!Next

\* Only the instance the cfg describes.
StoppedSpec == instance = "stopped" /\ Init /\ [][MCNext]_mcVars

\* The fairness of Controller's FairSpec, where one run is stopped.
MCSpec ==
    /\ MCInit /\ [][MCNext]_mcVars
    /\ \A c \in Callers : WF_vars(instance = "stopped" /\ Alive /\ Handle(c))
    /\ \A r \in Runs : WF_vars(instance = "stopped" /\ Alive /\ Execute(r))
    /\ WF_vars(instance = "stopped" /\ Alive /\ ShutdownReturns)
    /\ WF_vars(instance = "stopped" /\ Alive /\ Exit)

-----------------------------------------------------------------------------
\* A run that is stopping or stopped says why, whichever of Stop, Shutdown and the timer
\* came first (requestStop and stopReason, controller.go).
StopReasonGiven == instance = "stopped" => StopReasonKnown

\* A run asked to stop finishes and a signal ends the process, also during a run that a
\* kernel refuses to undo (stopping and Shutdown, controller.go).
StopsEnd ==
    []<>(instance = "stopped" =>
            /\ \A r \in Runs : ctxDone[r] => st[r] \in {"stopped", "failed"} \/ ~Alive
            /\ main \in {"serving", "exited"})

\* A request handler returns, whatever runs and other requests do.
RequestsReturn ==
    \A c \in Callers : []<>(instance = "stopped" => pc[c] = "idle")

\* fru-lab polls Reports: with runs that follow each other it holds the newest finished
\* ones, oldest first (Reports, controller.go).
ReportsKept ==
    /\ instance = "edited" => Edited!ReportsAreNewest
    /\ instance = "stopped" => ReportsAreNewest

\* Once no execute goroutine is left the process has all its CPUs back, however the
\* un-pinning of one run and the pinning of the next interleave.
CpusGivenBack ==
    /\ instance = "edited" => Edited!CpusReleased
    /\ instance = "stopped" => CpusReleased

=============================================================================
