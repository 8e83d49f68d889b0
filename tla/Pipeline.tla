------------------------------ MODULE Pipeline ------------------------------
(***************************************************************************)
(* One run of fru-tester between its configuration and its last address    *)
(* being removed (tester/run/controller.go, pipeline.go, cploop.go): gNBs  *)
(* come up, their UEs register and get PDU sessions, the control-plane UEs *)
(* cycle, until Stop; then everything is drained, deregistered and closed. *)
(*                                                                         *)
(* runN2's loop and procStage.run are the same dispatcher over different   *)
(* items: "n2" starts gNBs, the other stages start UEs.  A dispatcher pops *)
(* an item, waits for its turn and a free slot, and starts an attempt in a *)
(* goroutine of its own.  The pacing is time only and not modelled; the    *)
(* order in which rrQueue hands UEs out is module RRQueue.                 *)
(***************************************************************************)
EXTENDS Naturals, FiniteSets

CONSTANTS
    Gnbs,
    Tp, Cp,         \* throughput and control-plane UEs
    GnbOf,          \* the UE's gNB
    None,           \* no item
    Retries,        \* stage -> rates' Retries
    MaxInFlight,    \* stage -> rates' MaxInFlight
    MayLose         \* gNBs whose association the AMF may end

Ues    == Tp \cup Cp
Items  == Gnbs \cup Ues
Stages == {"n2", "reg", "pdu", "cp", "dereg"}

\* The metrics.Stage objects with a fixed expected count
Cards == {"n2", "reg", "pdu", "dereg", "cpCleanup", "n2Release"}
Expected == [c \in Cards |-> CASE c \in {"n2", "n2Release"} -> Cardinality(Gnbs)
                               [] c = "cpCleanup" -> Cardinality(Cp)
                               [] OTHER -> Cardinality(Tp)]

ASSUME PipelineOK ==
    /\ IsFiniteSet(Items) /\ None \notin Items
    /\ Gnbs \cap Ues = {} /\ Tp \cap Cp = {}
    /\ GnbOf \in [Ues -> Gnbs]
    /\ Retries \in [Stages -> Nat]
    /\ MaxInFlight \in [Stages -> Nat \ {0}]
    /\ MayLose \subseteq Gnbs

VARIABLES
    phase,          \* run.st, with stopping's three parts told apart
    ctxDone,        \* run.ctx is cancelled
    aborted,        \* run.cleanupCtx is cancelled
    loop,           \* each stage's dispatcher
    held,           \* the item it has popped and not started
    queue,          \* how often each item is queued
    flight,         \* the items an attempt is running for
    tries,          \* attempts begun
    left,           \* n2Round.left, run.tpLeft, deregisterAll's left
    card,           \* counters of the stage cards
    gSt,            \* GnbStatus.State
    conn,           \* run.conns[i] is not nil
    open,           \* the SCTP association is open
    alive,          \* Association.Err() is nil
    watch,          \* watchAssociation's goroutine
    rel,            \* closeConns' progress
    uSt,            \* ueRun.state
    regDone, pduDone, cycled, link,     \* ueRun's fields of these names
    step,           \* where a control-plane UE's cycle is
    registered,     \* cpLoop.registered
    failures,       \* run.failures: which UE failed which stage
    core            \* UEs the core holds a registration of

loopVars == <<loop, held, queue, flight, tries, left>>
gnbVars  == <<gSt, conn, open, alive, watch, rel>>
ueVars   == <<uSt, regDone, pduDone, cycled, link, step, registered, failures, core>>
stopVars == <<ctxDone, aborted>>
vars == <<phase, stopVars, loopVars, card, gnbVars, ueVars>>

-----------------------------------------------------------------------------
UeStates == {"pending", "registering", "registered", "establishing", "established",
             "failed", "skipped", "cancelled", "deregistering", "deregistered"}
Card == [inFlight : Nat, finished : Nat, skipped : Nat]

UesOf(g) == { u \in Ues : GnbOf[u] = g }

\* metrics.Stage's methods, on one card
Begun(c)      == [c EXCEPT !.inFlight = @ + 1]
Finished(c)   == [c EXCEPT !.inFlight = @ - 1, !.finished = @ + 1]
Skipped(c, n) == [c EXCEPT !.skipped = @ + n]

Retried(c)    == [c EXCEPT !.inFlight = @ - 1]

DeregCard(u) == IF u \in Cp THEN "cpCleanup" ELSE "dereg"

\* Mutant of Pushed: a push is lost while an attempt of the stage is in flight.
PushedIfQuiet(s, S) ==
    IF flight[s] # {} THEN queue
    ELSE [queue EXCEPT ![s] = [i \in Items |-> IF i \in S THEN @[i] + 1 ELSE @[i]]]

\* Pushing the items of S onto stage s's queue
Pushed(s, S) == [queue EXCEPT ![s] = [i \in Items |-> IF i \in S THEN @[i] + 1 ELSE @[i]]]
Drained(s)   == [i \in Items |-> 0]

\* The context that ends stage s's dispatcher
StageEnds(s) ==
    CASE s = "n2"    -> ctxDone \/ left.n2 = 0
      [] s = "dereg" -> aborted \/ left.dereg = 0
      [] OTHER       -> ctxDone

\* The attempt for i is over
Leave(s, i) == flight' = [flight EXCEPT ![s] = @ \ {i}]

\* Mutant of PduMarked: the UE is marked and not counted.
PduMarkedOnly(S) ==
    pduDone' = [u \in Ues |-> pduDone[u] \/ u \in S] /\ UNCHANGED left

\* markPduDone: the last throughput UE closes tpDone, which is left.tp = 0.
PduMarked(S) ==
    /\ pduDone' = [u \in Ues |-> pduDone[u] \/ u \in S]
    /\ left' = [left EXCEPT !.tp = @ - Cardinality({ u \in S : ~pduDone[u] })]

\* setCleanupState: a UE that failed stays failed.
CleanupState(u, st) == uSt' = [uSt EXCEPT ![u] = IF @ = "failed" THEN @ ELSE st]

\* execute has started the dispatchers and calls runN2.
Init ==
    /\ phase = "n2" /\ ctxDone = FALSE /\ aborted = FALSE
    /\ loop = [s \in Stages |-> CASE s \in {"n2", "reg", "pdu"} -> "loop"
                                  [] s = "cp" -> IF Cp = {} THEN "returned" ELSE "off"
                                  [] OTHER -> "off"]
    /\ held = [s \in Stages |-> None]
    /\ queue = [s \in Stages |-> [i \in Items |-> IF s = "n2" /\ i \in Gnbs THEN 1 ELSE 0]]
    /\ flight = [s \in Stages |-> {}]
    /\ tries = [s \in Stages |-> [i \in Items |-> 0]]
    /\ left = [n2 |-> Cardinality(Gnbs), tp |-> Cardinality(Tp), dereg |-> 0]
    /\ card = [c \in Cards |-> [inFlight |-> 0, finished |-> 0, skipped |-> 0]]
    /\ gSt = [g \in Gnbs |-> "pending"]
    /\ conn = [g \in Gnbs |-> FALSE] /\ open = [g \in Gnbs |-> FALSE]
    /\ alive = [g \in Gnbs |-> FALSE]
    /\ watch = [g \in Gnbs |-> "none"] /\ rel = [g \in Gnbs |-> "todo"]
    /\ uSt = [u \in Ues |-> "pending"]
    /\ regDone = [u \in Ues |-> u \in Cp] /\ pduDone = [u \in Ues |-> u \in Cp]
    /\ cycled = [u \in Ues |-> FALSE] /\ link = [u \in Ues |-> FALSE]
    /\ step = [u \in Ues |-> "idle"] /\ registered = 0
    /\ failures = {} /\ core = {}

-----------------------------------------------------------------------------
(* Stop, and the second Stop or Shutdown that skips the rest of cleanup.   *)

Stop ==
    /\ phase # "stopped" /\ ~ctxDone
    /\ ctxDone' = TRUE
    /\ UNCHANGED <<phase, aborted, loopVars, card, gnbVars, ueVars>>

Abort ==
    /\ phase # "stopped" /\ ctxDone /\ ~aborted
    /\ aborted' = TRUE
    /\ UNCHANGED <<phase, ctxDone, loopVars, card, gnbVars, ueVars>>

-----------------------------------------------------------------------------
(* A dispatcher: runN2's loop and procStage.run.                           *)

\* Mutant of Pop: the item stays queued.
PopPeeking(s) ==
    /\ loop[s] = "loop" /\ held[s] = None
    /\ \E i \in Items : queue[s][i] > 0 /\ held' = [held EXCEPT ![s] = i]
    /\ UNCHANGED <<phase, stopVars, loop, queue, flight, tries, left, card, gnbVars, ueVars>>

\* rrQueue.pop takes a queued item even when its context is done; runN2 checks for
\* that.
Pop(s) ==
    /\ loop[s] = "loop" /\ held[s] = None
    /\ s = "n2" => ~ctxDone
    /\ \E i \in Items :
        /\ queue[s][i] > 0
        /\ held' = [held EXCEPT ![s] = i]
        /\ queue' = [queue EXCEPT ![s][i] = @ - 1]
    /\ UNCHANGED <<phase, stopVars, loop, flight, tries, left, card, gnbVars, ueVars>>

\* A select sees the context done: the held item goes back to the queue, except
\* runN2's, which stays pending.
LoopEnds(s) ==
    /\ loop[s] = "loop" /\ StageEnds(s)
    /\ loop' = [loop EXCEPT ![s] = "wait"]
    /\ held' = [held EXCEPT ![s] = None]
    /\ queue' = IF s = "n2" THEN queue ELSE Pushed(s, {held[s]})
    /\ UNCHANGED <<phase, stopVars, flight, tries, left, card, gnbVars, ueVars>>

LoopReturns(s) ==
    /\ loop[s] = "wait" /\ flight[s] = {}
    /\ loop' = [loop EXCEPT ![s] = "returned"]
    /\ UNCHANGED <<phase, stopVars, held, queue, flight, tries, left, card, gnbVars, ueVars>>

\* An attempt starts.  The select for a free slot may win over a context that is
\* done.
Dispatch(s) ==
    /\ loop[s] = "loop" /\ held[s] # None
    /\ Cardinality(flight[s]) < MaxInFlight[s]
    /\ flight' = [flight EXCEPT ![s] = @ \cup {held[s]}]
    /\ held' = [held EXCEPT ![s] = None]
    /\ UNCHANGED <<phase, stopVars, loop, queue, left, regDone, pduDone, cycled, link, registered, failures, core,
                   conn, open, alive, watch, rel>>

\* The beginning of attemptN2, attemptRegistration and attemptPdu
BeginAttempt(s) ==
    LET i == held[s]
    IN  /\ s \in {"n2", "reg", "pdu"}
        /\ Dispatch(s)
        /\ tries' = [tries EXCEPT ![s][i] = @ + 1]
        /\ card' = [card EXCEPT ![s] = Begun(@)]
        /\ IF s = "n2"
           THEN gSt' = [gSt EXCEPT ![i] = "connecting"] /\ UNCHANGED uSt
           ELSE /\ uSt' = [uSt EXCEPT ![i] = IF s = "reg" THEN "registering" ELSE "establishing"]
                /\ UNCHANGED gSt
        /\ UNCHANGED step

\* A wanted retry goes to the back of the queue.
Retry(s, i) ==
    /\ i \in flight[s] /\ tries[s][i] <= Retries[s] /\ ~ctxDone
    /\ Leave(s, i)
    /\ queue' = Pushed(s, {i})
    /\ card' = [card EXCEPT ![s] = Retried(@)]
    /\ IF s = "n2"
       THEN gSt' = [gSt EXCEPT ![i] = "pending"] /\ UNCHANGED <<uSt, core>>
       ELSE /\ uSt' = [uSt EXCEPT ![i] = IF s = "reg" THEN "pending" ELSE "registered"]
            /\ core' \in IF s = "reg" THEN {core, core \cup {i}} ELSE {core}
            /\ UNCHANGED gSt
    /\ UNCHANGED <<phase, stopVars, loop, held, tries, left, conn, open, alive, watch, rel,
                   regDone, pduDone, cycled, link, step, registered, failures>>

-----------------------------------------------------------------------------
(* N2: attemptN2, startGnb and watchAssociation.                           *)

N2Up(g) ==
    /\ g \in flight["n2"]
    /\ Leave("n2", g)
    /\ card' = [card EXCEPT !["n2"] = Finished(@)]
    /\ gSt' = [gSt EXCEPT ![g] = "up"]
    /\ conn' = [conn EXCEPT ![g] = TRUE] /\ open' = [open EXCEPT ![g] = TRUE]
    /\ alive' = [alive EXCEPT ![g] = TRUE]
    /\ watch' = [watch EXCEPT ![g] = "read"]
    /\ queue' = Pushed("reg", UesOf(g) \cap Tp)
    /\ left' = [left EXCEPT !.n2 = @ - 1]
    /\ UNCHANGED <<phase, stopVars, loop, held, tries, rel, ueVars>>

\* The last attempt failed, or the run is stopping: skipGnbUes.
N2Fails(g) ==
    LET tp == UesOf(g) \cap Tp
    IN  /\ g \in flight["n2"] /\ (tries["n2"][g] > Retries["n2"] \/ ctxDone)
        /\ Leave("n2", g)
        /\ card' = [card EXCEPT !["n2"] = Finished(@),
                                !["reg"] = Skipped(@, Cardinality(tp)),
                                !["pdu"] = Skipped(@, Cardinality(tp))]
        /\ gSt' = [gSt EXCEPT ![g] = "failed"]
        /\ uSt' = [u \in Ues |-> IF GnbOf[u] = g THEN "skipped" ELSE uSt[u]]
        /\ regDone' = [u \in Ues |-> regDone[u] \/ u \in tp]
        /\ pduDone' = [u \in Ues |-> pduDone[u] \/ u \in tp]
        /\ left' = [left EXCEPT !.n2 = @ - 1,
                                !.tp = @ - Cardinality({ u \in tp : ~pduDone[u] })]
        /\ UNCHANGED <<phase, stopVars, loop, held, queue, tries, conn, open, alive, watch, rel,
                       cycled, link, step, registered, failures, core>>

\* Association.Run returns: the AMF ended the association, or closeConns did.
AssociationEnds(g) ==
    /\ watch[g] = "read"
    /\ g \in MayLose \/ ~open[g]
    /\ alive' = [alive EXCEPT ![g] = FALSE]
    /\ watch' = [watch EXCEPT ![g] = "ended"]
    /\ UNCHANGED <<phase, stopVars, loopVars, card, gSt, conn, open, rel, ueVars>>

\* watchAssociation checks for Stop, takes the connection, closes it.
WatchCheck(g) ==
    /\ watch[g] = "ended"
    /\ watch' = [watch EXCEPT ![g] = IF ctxDone THEN "done" ELSE "take"]
    /\ UNCHANGED <<phase, stopVars, loopVars, card, gSt, conn, open, alive, rel, ueVars>>

WatchTake(g) ==
    /\ watch[g] = "take"
    /\ conn' = [conn EXCEPT ![g] = FALSE]
    /\ watch' = [watch EXCEPT ![g] = "close"]
    /\ UNCHANGED <<phase, stopVars, loopVars, card, gSt, open, alive, rel, ueVars>>

WatchClose(g) ==
    /\ watch[g] = "close"
    /\ open' = [open EXCEPT ![g] = FALSE]
    /\ gSt' = [gSt EXCEPT ![g] = "lost"]
    /\ watch' = [watch EXCEPT ![g] = "done"]
    /\ UNCHANGED <<phase, stopVars, loopVars, card, conn, alive, rel, ueVars>>

-----------------------------------------------------------------------------
(* Registration and PDU sessions.  An answer may be buffered already when  *)
(* the association is lost, so an attempt may succeed all the same.        *)

RegAccepted(u) ==
    /\ u \in flight["reg"]
    /\ Leave("reg", u)
    /\ card' = [card EXCEPT !["reg"] = Finished(@)]
    /\ regDone' = [regDone EXCEPT ![u] = TRUE]
    /\ uSt' = [uSt EXCEPT ![u] = "registered"]
    /\ link' = [link EXCEPT ![u] = TRUE]
    /\ core' = core \cup {u}
    /\ queue' = Pushed("pdu", {u})
    /\ UNCHANGED <<phase, stopVars, loop, held, tries, left, gnbVars, pduDone, cycled, step, registered, failures>>

\* A failed UE gets no PDU session either.  The core may hold it registered: the
\* answer was lost, or came too late.
RegFails(u) ==
    /\ u \in flight["reg"] /\ (tries["reg"][u] > Retries["reg"] \/ ctxDone)
    /\ Leave("reg", u)
    /\ card' = [card EXCEPT !["reg"] = Finished(@), !["pdu"] = Skipped(@, 1)]
    /\ regDone' = [regDone EXCEPT ![u] = TRUE]
    /\ PduMarked({u})
    /\ uSt' = [uSt EXCEPT ![u] = "failed"]
    /\ failures' = failures \cup {<<u, "registration">>}
    /\ core' \in {core, core \cup {u}}
    /\ UNCHANGED <<phase, stopVars, loop, held, queue, tries, gnbVars, cycled, link, step, registered>>

PduAccepted(u) ==
    /\ u \in flight["pdu"]
    /\ Leave("pdu", u)
    /\ card' = [card EXCEPT !["pdu"] = Finished(@)]
    /\ PduMarked({u})
    /\ uSt' = [uSt EXCEPT ![u] = "established"]
    /\ UNCHANGED <<phase, stopVars, loop, held, queue, tries, gnbVars, regDone, cycled, link, step, registered,
                   failures, core>>

PduFails(u) ==
    /\ u \in flight["pdu"] /\ (tries["pdu"][u] > Retries["pdu"] \/ ctxDone)
    /\ Leave("pdu", u)
    /\ card' = [card EXCEPT !["pdu"] = Finished(@)]
    /\ PduMarked({u})
    /\ uSt' = [uSt EXCEPT ![u] = "failed"]
    /\ failures' = failures \cup {<<u, "pdu">>}
    /\ UNCHANGED <<phase, stopVars, loop, held, queue, tries, gnbVars, regDone, cycled, link, step, registered, core>>
-----------------------------------------------------------------------------
(* The control-plane UEs' cycle: runCpLoop and cpCycle.                    *)

\* Once every throughput UE has its outcome, the UEs of the gNBs that are up are
\* queued; if Stop comes first they are not.
CpLoopStarts ==
    /\ loop["cp"] = "await"
    /\ \/ /\ left.tp = 0
          /\ loop' = [loop EXCEPT !["cp"] = "loop"]
          /\ queue' = Pushed("cp", { u \in Cp : alive[GnbOf[u]] })
       \/ /\ ctxDone
          /\ loop' = [loop EXCEPT !["cp"] = "returned"]
          /\ UNCHANGED queue
    /\ UNCHANGED <<phase, stopVars, held, flight, tries, left, card, gnbVars, ueVars>>

BeginCycle ==
    LET u == held["cp"]
    IN  /\ Dispatch("cp")
        /\ alive[GnbOf[u]]
        /\ uSt' = [uSt EXCEPT ![u] = "registering"]
        /\ step' = [step EXCEPT ![u] = "register"]
        /\ UNCHANGED <<tries, card, gSt>>

\* The UE's gNB went away: it is done.
SkipCycle ==
    LET u == held["cp"]
    IN  /\ loop["cp"] = "loop" /\ u # None /\ ~alive[GnbOf[u]]
        /\ held' = [held EXCEPT !["cp"] = None]
        /\ uSt' = [uSt EXCEPT ![u] = "skipped"]
        /\ UNCHANGED <<phase, stopVars, loop, queue, flight, tries, left, card, gnbVars, regDone, pduDone,
                       cycled, link, step, registered, failures, core>>

\* cpIdle: the UE waits for its next cycle, if there is one.
Idle(u) ==
    /\ Leave("cp", u)
    /\ step' = [step EXCEPT ![u] = "idle"]
    /\ uSt' = [uSt EXCEPT ![u] = "pending"]
    /\ queue' = IF ctxDone THEN queue ELSE Pushed("cp", {u})

CpRegisters(u) ==
    /\ step[u] = "register"
    /\ \/ /\ step' = [step EXCEPT ![u] = "hold"]
          /\ uSt' = [uSt EXCEPT ![u] = "registered"]
          /\ link' = [link EXCEPT ![u] = TRUE]
          /\ registered' = registered + 1
          /\ core' = core \cup {u}
          /\ UNCHANGED <<flight, queue>>
       \/ /\ Idle(u)
          /\ core' \in {core, core \cup {u}}
          /\ UNCHANGED <<link, registered>>
    /\ UNCHANGED <<phase, stopVars, loop, held, tries, left, card, gnbVars, regDone, pduDone, cycled, failures>>

\* The hold time is over, or Stop cuts it short and leaves the UE to the cleanup.
CpHolds(u) ==
    /\ step[u] = "hold"
    /\ IF ctxDone
       THEN /\ Leave("cp", u)
            /\ step' = [step EXCEPT ![u] = "idle"]
            /\ registered' = registered - 1
            /\ UNCHANGED uSt
       ELSE /\ step' = [step EXCEPT ![u] = "deregister"]
            /\ uSt' = [uSt EXCEPT ![u] = "deregistering"]
            /\ UNCHANGED <<flight, registered>>
    /\ UNCHANGED <<phase, stopVars, loop, held, queue, tries, left, card, gnbVars, regDone, pduDone, cycled,
                   link, failures, core>>

\* Accepted or not, the cycle counts as one (cpIdle(i, true)).
CpDeregisters(u) ==
    /\ step[u] = "deregister"
    /\ Idle(u)
    /\ link' = [link EXCEPT ![u] = FALSE]
    /\ registered' = registered - 1
    /\ cycled' = [cycled EXCEPT ![u] = TRUE]
    /\ core' \in {core, core \ {u}}
    /\ UNCHANGED <<phase, stopVars, loop, held, tries, left, card, gnbVars, regDone, pduDone, failures>>

-----------------------------------------------------------------------------
(* execute after the launch, and the cleanup.                              *)

\* runN2 has returned: the control-plane loop is started.
N2Done ==
    /\ phase = "n2" /\ loop["n2"] = "returned"
    /\ phase' = IF ctxDone THEN "stopping" ELSE "running"
    /\ loop' = [loop EXCEPT !["cp"] = IF Cp = {} THEN "returned" ELSE "await"]
    /\ UNCHANGED <<stopVars, held, queue, flight, tries, left, card, gnbVars, ueVars>>

Stopping ==
    /\ phase = "running" /\ ctxDone
    /\ phase' = "stopping"
    /\ UNCHANGED <<stopVars, loopVars, card, gnbVars, ueVars>>

\* skipUnfinished, when every dispatcher and attempt has returned
SkipUnfinished ==
    LET unfinished == { u \in Tp : ~pduDone[u] }
    IN  /\ phase = "stopping" /\ \A s \in {"reg", "pdu", "cp"} : loop[s] = "returned"
        /\ phase' = "skipped"
        /\ queue' = [s \in Stages |-> IF s \in {"reg", "pdu", "cp"} THEN Drained(s) ELSE queue[s]]
        /\ card' = [card EXCEPT
                !["n2"] = Skipped(@, Cardinality({ g \in Gnbs : gSt[g] \in {"pending", "connecting"} })),
                !["reg"] = Skipped(@, Cardinality({ u \in Ues : ~regDone[u] })),
                !["pdu"] = Skipped(@, Cardinality(unfinished))]
        /\ regDone' = [u \in Ues |-> TRUE]
        /\ PduMarked(unfinished)
        /\ uSt' = [u \in Ues |->
                IF u \in Cp /\ uSt[u] = "pending" /\ cycled[u] THEN "deregistered"
                ELSE IF uSt[u] \in {"pending", "registering", "registered", "establishing"} THEN "cancelled"
                ELSE uSt[u]]
        /\ UNCHANGED <<stopVars, loop, held, flight, tries, gnbVars, cycled, link, step, registered, failures, core>>

\* Mutant of CanDeregister: only a UE with a PDU session.
CanDeregisterEstablished(u) == uSt[u] = "established" /\ alive[GnbOf[u]] /\ ~aborted

CanDeregister(u) == link[u] /\ alive[GnbOf[u]] /\ ~aborted

\* deregisterAll queues every UE that can deregister and skips the others.
DeregisterAll ==
    LET todo == { u \in Ues : CanDeregister(u) }
    IN  /\ phase = "skipped"
        /\ card' = [card EXCEPT !["dereg"] = Skipped(@, Cardinality(Tp \ todo)),
                                !["cpCleanup"] = Skipped(@, Cardinality(Cp \ todo))]
        /\ IF todo = {}
           THEN phase' = "close" /\ UNCHANGED <<loop, queue, left>>
           ELSE /\ phase' = "deregister"
                /\ loop' = [loop EXCEPT !["dereg"] = "loop"]
                /\ queue' = Pushed("dereg", todo)
                /\ left' = [left EXCEPT !.dereg = Cardinality(todo)]
        /\ UNCHANGED <<stopVars, held, flight, tries, gnbVars, ueVars>>

BeginDeregistration ==
    LET u == held["dereg"]
    IN  /\ Dispatch("dereg")
        /\ tries' = [tries EXCEPT !["dereg"][u] = @ + 1]
        /\ card' = [card EXCEPT ![DeregCard(u)] = Begun(@)]
        /\ CleanupState(u, "deregistering")
        /\ UNCHANGED <<gSt, step>>

\* attemptDeregistration ends without a retry: detached, in a final state.
Deregistered(u) ==
    /\ u \in flight["dereg"]
    /\ Leave("dereg", u)
    /\ card' = [card EXCEPT ![DeregCard(u)] = Finished(@)]
    /\ left' = [left EXCEPT !.dereg = @ - 1]
    /\ link' = [link EXCEPT ![u] = FALSE]
    /\ UNCHANGED <<phase, stopVars, loop, held, queue, tries, gnbVars, regDone, pduDone, cycled, step, registered>>

DeregAccepted(u) ==
    /\ Deregistered(u)
    /\ CleanupState(u, "deregistered")
    /\ core' = core \ {u}
    /\ UNCHANGED failures

DeregAborted(u) ==
    /\ aborted
    /\ Deregistered(u)
    /\ CleanupState(u, "cancelled")
    /\ core' \in {core, core \ {u}}
    /\ UNCHANGED failures

\* Out of retries, or rejected, which is not retried
DeregFails(u) ==
    /\ ~aborted
    /\ Deregistered(u)
    /\ CleanupState(u, "failed")
    /\ failures' = failures \cup {<<u, "deregistration">>}
    /\ core' \in {core, core \ {u}}

DeregRetry(u) ==
    /\ u \in flight["dereg"] /\ tries["dereg"][u] <= Retries["dereg"] /\ ~aborted
    /\ Leave("dereg", u)
    /\ queue' = Pushed("dereg", {u})
    /\ card' = [card EXCEPT ![DeregCard(u)] = Retried(@)]
    /\ core' \in {core, core \ {u}}
    /\ UNCHANGED <<phase, stopVars, loop, held, tries, left, gnbVars, uSt, regDone, pduDone, cycled, link, step,
                   registered, failures>>

\* What the aborted stage left queued is skipped.
DeregisterDone ==
    LET drained == { u \in Ues : queue["dereg"][u] > 0 }
    IN  /\ phase = "deregister" /\ loop["dereg"] = "returned"
        /\ phase' = "close"
        /\ queue' = [queue EXCEPT !["dereg"] = Drained("dereg")]
        /\ card' = [card EXCEPT !["dereg"] = Skipped(@, Cardinality(drained \cap Tp)),
                                !["cpCleanup"] = Skipped(@, Cardinality(drained \cap Cp))]
        /\ link' = [u \in Ues |-> link[u] /\ u \notin drained]
        /\ uSt' = [u \in Ues |-> IF u \in drained /\ uSt[u] # "failed" THEN "cancelled" ELSE uSt[u]]
        /\ UNCHANGED <<stopVars, loop, held, flight, tries, left, gnbVars, regDone, pduDone, cycled, step,
                       registered, failures, core>>

\* Mutant of CloseTake: a gNB without a connection is not skipped on its card.
CloseTakeUncounted(g) ==
    /\ phase = "close" /\ rel[g] = "todo"
    /\ conn' = [conn EXCEPT ![g] = FALSE]
    /\ rel' = [rel EXCEPT ![g] = IF conn[g] THEN "closing" ELSE "done"]
    /\ card' = [card EXCEPT !["n2Release"] = IF conn[g] THEN Begun(@) ELSE @]
    /\ UNCHANGED <<phase, stopVars, loopVars, gSt, open, alive, watch, ueVars>>

\* closeConns takes each connection that is still there and closes it.
CloseTake(g) ==
    /\ phase = "close" /\ rel[g] = "todo"
    /\ conn' = [conn EXCEPT ![g] = FALSE]
    /\ rel' = [rel EXCEPT ![g] = IF conn[g] THEN "closing" ELSE "done"]
    /\ card' = [card EXCEPT !["n2Release"] = IF conn[g] THEN Begun(@) ELSE Skipped(@, 1)]
    /\ UNCHANGED <<phase, stopVars, loopVars, gSt, open, alive, watch, ueVars>>

CloseEnds(g) ==
    /\ rel[g] = "closing"
    /\ rel' = [rel EXCEPT ![g] = "done"]
    /\ open' = [open EXCEPT ![g] = FALSE]
    /\ gSt' = [gSt EXCEPT ![g] = "closed"]
    /\ card' = [card EXCEPT !["n2Release"] = Finished(@)]
    /\ UNCHANGED <<phase, stopVars, loopVars, conn, alive, watch, ueVars>>

Stopped ==
    /\ phase = "close" /\ \A g \in Gnbs : rel[g] = "done"
    /\ phase' = "stopped"
    /\ UNCHANGED <<stopVars, loopVars, card, gnbVars, ueVars>>

-----------------------------------------------------------------------------
\* One dispatcher's steps; one attempt's end; one gNB's watcher; execute's own
Dispatcher(s) ==
    \/ Pop(s) \/ LoopEnds(s) \/ LoopReturns(s) \/ BeginAttempt(s)
    \/ s = "cp" /\ (CpLoopStarts \/ BeginCycle \/ SkipCycle)
    \/ s = "dereg" /\ BeginDeregistration

GnbAttemptEnds(g) == N2Up(g) \/ N2Fails(g) \/ Retry("n2", g)

UeAttemptEnds(u) ==
    \/ RegAccepted(u) \/ RegFails(u) \/ Retry("reg", u)
    \/ PduAccepted(u) \/ PduFails(u) \/ Retry("pdu", u)
    \/ CpRegisters(u) \/ CpHolds(u) \/ CpDeregisters(u)
    \/ DeregAccepted(u) \/ DeregAborted(u) \/ DeregFails(u) \/ DeregRetry(u)

Watcher(g) == WatchCheck(g) \/ WatchTake(g) \/ WatchClose(g)

Execute ==
    \/ N2Done \/ Stopping \/ SkipUnfinished \/ DeregisterAll \/ DeregisterDone
    \/ (\E g \in Gnbs : CloseTake(g) \/ CloseEnds(g))
    \/ Stopped

Next ==
    \/ Stop \/ Abort \/ Execute
    \/ \E s \in Stages : Dispatcher(s)
    \/ \E g \in Gnbs : GnbAttemptEnds(g) \/ AssociationEnds(g) \/ Watcher(g)
    \/ \E u \in Ues : UeAttemptEnds(u)

Spec == Init /\ [][Next]_vars

\* Ready goroutines run, and every attempt has a timeout.  Stop may never come and
\* an association may last.
FairSpec ==
    /\ Spec
    /\ WF_vars(Execute)
    /\ \A s \in Stages : WF_vars(Dispatcher(s))
    /\ \A g \in Gnbs : WF_vars(GnbAttemptEnds(g)) /\ WF_vars(Watcher(g))
    /\ \A u \in Ues : WF_vars(UeAttemptEnds(u))

-----------------------------------------------------------------------------
(* Properties.                                                             *)

TypeOK ==
    /\ phase \in {"n2", "running", "stopping", "skipped", "deregister", "close", "stopped"}
    /\ ctxDone \in BOOLEAN /\ aborted \in BOOLEAN
    /\ loop \in [Stages -> {"off", "await", "loop", "wait", "returned"}]
    /\ held \in [Stages -> Items \cup {None}]
    /\ queue \in [Stages -> [Items -> Nat]]
    /\ flight \in [Stages -> SUBSET Items]
    /\ tries \in [Stages -> [Items -> Nat]]
    /\ left \in [n2 : Nat, tp : Nat, dereg : Nat]
    /\ card \in [Cards -> Card]
    /\ gSt \in [Gnbs -> {"pending", "connecting", "up", "failed", "lost", "closed"}]
    /\ conn \in [Gnbs -> BOOLEAN] /\ open \in [Gnbs -> BOOLEAN] /\ alive \in [Gnbs -> BOOLEAN]
    /\ watch \in [Gnbs -> {"none", "read", "ended", "take", "close", "done"}]
    /\ rel \in [Gnbs -> {"todo", "closing", "done"}]
    /\ uSt \in [Ues -> UeStates]
    /\ regDone \in [Ues -> BOOLEAN] /\ pduDone \in [Ues -> BOOLEAN]
    /\ cycled \in [Ues -> BOOLEAN] /\ link \in [Ues -> BOOLEAN]
    /\ step \in [Ues -> {"idle", "register", "hold", "deregister"}]
    /\ registered \in Nat
    /\ failures \in SUBSET (Ues \X {"registration", "pdu", "deregistration"})
    /\ core \in SUBSET Ues

\* How many places item i is in: queued, popped, or being attempted
AtStage(s, i) == queue[s][i] + (IF held[s] = i THEN 1 ELSE 0) + (IF i \in flight[s] THEN 1 ELSE 0)
Places(i) == AtStage("n2", i) + AtStage("reg", i) + AtStage("pdu", i) + AtStage("cp", i) + AtStage("dereg", i)

\* "nas and link, which only the UE's current attempt touches" (ueRun): no gNB or UE
\* is queued twice or has two attempts, whatever retries and hand-overs between
\* stages a Stop cuts through.
OnePlace == \A i \in Items : Places(i) <= 1

\* No card counts an item twice, and its in-flight number is that of the
\* attempts running.
CountedOnce ==
    /\ \A c \in Cards : card[c].finished + card[c].skipped <= Expected[c]
    /\ \A s \in {"n2", "reg", "pdu"} : card[s].inFlight = Cardinality(flight[s])
    /\ card["dereg"].inFlight + card["cpCleanup"].inFlight = Cardinality(flight["dereg"])

\* skipUnfinished's comment: after Stop each stage is Done, so its total time stops
\* growing, and no UE is left in a state that still promises something.
DoneWhenStopped ==
    phase = "stopped" =>
        /\ \A c \in Cards : card[c].finished + card[c].skipped = Expected[c] /\ card[c].inFlight = 0
        /\ \A u \in Ues : uSt[u] \in {"established", "failed", "skipped", "cancelled", "deregistered"}
        /\ registered = 0

\* The control-plane test starts once every throughput UE has its final PDU outcome:
\* tpLeft counts down to zero exactly then (and close(tpDone) runs once).
LoadBeforeCycles ==
    /\ left.tp = Cardinality({ u \in Tp : ~pduDone[u] })
    /\ (\E u \in Cp : uSt[u] \in {"registering", "registered", "deregistering"}) => left.tp = 0

\* A stopped run leaves no association open, except one its watcher has taken and
\* is just closing.
ConnsClosed ==
    phase = "stopped" => \A g \in Gnbs : open[g] => watch[g] = "close"

\* Cleanup deregisters every UE that registered: unless it was aborted or the gNB's
\* association is gone, no UE of a stopped run still holds its link, and one
\* reported deregistered is so in the core.
CleanedUp ==
    phase = "stopped" => \A u \in Tp :
        /\ link[u] => aborted \/ GnbOf[u] \in MayLose
        /\ uSt[u] = "deregistered" => u \notin core

\* UeSummary.Failed counts exactly the UEs the failure list names.
FailedAreListed ==
    \A u \in Ues : uSt[u] = "failed" <=> \E f \in failures : f[1] = u

\* A run asked to stop stops, in whichever phase: every dispatcher, attempt and
\* cleanup stage comes to its end.
StopStops == ctxDone ~> phase = "stopped"

\* Nothing is forgotten in a queue: unless the run is stopped, every throughput UE
\* gets its final PDU outcome.
LoadFinishes == <>(ctxDone \/ \A u \in Tp : pduDone[u])

-----------------------------------------------------------------------------
(* What the comments say and the code does not keep.                       *)

\* controller.go:862: "UeSummary.Failed matches the failure list".
FailureListMatches ==
    phase = "stopped" => Cardinality(failures) = Cardinality({ u \in Ues : uSt[u] = "failed" })

=============================================================================
