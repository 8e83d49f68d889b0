----------------------------- MODULE Controller -----------------------------
(***************************************************************************)
(* fru-tester's run controller (tester/run): the API requests that start,  *)
(* stop and ping, the goroutine that executes a run, and the process's own *)
(* shutdown, all sharing one host.  What a run does between N2 and cleanup *)
(* is module Pipeline; here it is one step per phase.                      *)
(*                                                                         *)
(* A request handler (a Caller) and a run's execute goroutine are both     *)
(* workers with a program counter.  An address on the host is an entry     *)
(* <<ip, prefix length>>.  Runs are numbered in the order they were        *)
(* started, so the last one started is always Controller.current.          *)
(***************************************************************************)
EXTENDS Naturals, Sequences, FiniteSets

CONSTANTS
    Callers,        \* API request goroutines
    Requests,       \* the kinds of requests they make in this instance
    MaxRuns,        \* bound: runs started
    KeptReports,    \* keptReports: finished runs kept besides current
    IPs, Bits,      \* IPv4 addresses and prefix lengths
    NoEntry,        \* no address chosen yet
    GnbBits,        \* the prefix length of the gNB CIDRs (Plan.N2Prefix/N3Prefix)
    PlanLen,        \* N2 and N3 addresses a plan asks for
    Allocations,    \* CPU allocations the Status page can store
    Unpinned,       \* the allocation that pins nothing (cpuset.Allowed)
    Timed,          \* Traffic.MaxDurationMin > 0
    UndoFails       \* the kernel may refuse to take an address or a route back

Runs    == 1..MaxRuns
Workers == Callers \cup Runs
NoRun   == 0
Entry   == IPs \X Bits

ASSUME ConstantsOK ==
    /\ MaxRuns \in Nat \ {0}
    /\ KeptReports \in Nat \ {0}
    /\ PlanLen \in Nat
    /\ GnbBits \in Bits
    /\ Unpinned \in Allocations
    /\ Timed \in BOOLEAN
    /\ UndoFails \in BOOLEAN
    /\ Callers \cap Runs = {}
    /\ NoEntry \notin Entry

VARIABLES
    current,        \* the run started last, NoRun before the first
    pinging,        \* a ping test holds addresses on the host
    past,           \* finished runs before current, oldest first
    st,             \* run.st
    stopReason,     \* run.stopReason
    ctxDone,        \* run.ctx is cancelled
    aborted,        \* run.cleanupCtx is cancelled by a second Stop or Shutdown
    timer,          \* the maxDuration timer is armed
    failed,         \* execute is on its error path
    pc,             \* where each worker is
    job,            \* what it is working with: sink, plan, CPU allocation
    added,          \* run.added (a ping's addrChange): what to undo, in order
    taken,          \* a host entry taken off and not yet put back elsewhere
    routed,         \* run.routes is not empty
    engines,        \* runs whose data plane is open
    host,           \* the entries on the host's interfaces
    route,          \* the UE pool route is there
    hostBefore, routeBefore,    \* both before the tester touched them
    refused,        \* the kernel refused an undo
    procCpus,       \* the CPUs the whole process is kept to
    stored,         \* the stored CPU allocation
    bench,          \* a bench is running
    main,           \* cmd serve: the process's own life
    awaited         \* the run Shutdown waits for

ctlVars  == <<current, pinging, past>>
runVars  == <<st, stopReason, ctxDone, aborted, timer, failed>>
workVars == <<job, added, taken, routed, engines>>
hostVars == <<host, route, refused>>
cpuVars  == <<procCpus, stored>>
mainVars == <<main, awaited>>
baseVars == <<hostBefore, routeBefore>>
vars == <<ctlVars, runVars, pc, workVars, hostVars, baseVars, cpuVars, bench, mainVars>>

-----------------------------------------------------------------------------
Change == [addr : Entry, replaced : SUBSET Entry]   \* addrChange; at most one replaced
Job    == [sink : Entry \cup {NoEntry}, plan : Seq(Entry), cpus : Allocations]

NoJob  == [sink |-> NoEntry, plan |-> <<>>, cpus |-> Unpinned]

RunStates    == {"none", "configuring", "n2", "running", "stopping", "stopped", "failed"}
ActiveStates == {"configuring", "n2", "running", "stopping"}
RunPCs    == {"none", "pin", "addrs", "engine", "launch", "n2", "hold",
              "stop", "cleanup", "unroute", "finish", "unpin", "return", "done"}
CallerPCs == {"idle", "startCheck", "validate", "allocation", "commit", "save",
              "resolve", "ping", "pingEnd"}
PlacePCs  == {"take", "add", "undo", "putBack"}

\* State.Finished, negated: "none" stands for StateIdle
RunActive == current # NoRun /\ st[current] \in ActiveStates

\* Mutant of Busy: the checks overlook a ping test.
BusyButForPing == RunActive

\* Start and Ping are refused while a run is active or a ping test is going on.
Busy == RunActive \/ pinging

\* profile.Expand: PlanLen distinct IPs, none on the host, none the sink's.
Plans(onHost, sink) ==
    { p \in [1..PlanLen -> IPs \X {GnbBits}] :
        /\ \A i, j \in 1..PlanLen : i # j => p[i][1] # p[j][1]
        /\ \A i \in 1..PlanLen : p[i][1] # sink[1] /\ \A e \in onHost : e[1] # p[i][1] }

Init ==
    /\ current = NoRun /\ pinging = FALSE /\ past = <<>>
    /\ st = [r \in Runs |-> "none"]
    /\ stopReason = [r \in Runs |-> ""]
    /\ ctxDone = [r \in Runs |-> FALSE]
    /\ aborted = [r \in Runs |-> FALSE]
    /\ timer = [r \in Runs |-> FALSE]
    /\ failed = [r \in Runs |-> FALSE]
    /\ pc = [w \in Workers |-> IF w \in Runs THEN "none" ELSE "idle"]
    /\ job = [w \in Workers |-> NoJob]
    /\ added = [w \in Workers |-> <<>>]
    /\ taken = [w \in Workers |-> {}]
    /\ routed = [r \in Runs |-> FALSE]
    /\ engines = {}
    \* the host has each IP at most once, so one prefix length per IP
    /\ host \in { H \in SUBSET Entry : \A a, b \in H : a[1] = b[1] => a = b }
    /\ route \in BOOLEAN
    /\ hostBefore = host /\ routeBefore = route
    /\ refused = FALSE
    /\ procCpus = Unpinned /\ stored = Unpinned
    /\ bench = FALSE
    /\ main = "serving" /\ awaited = NoRun

Goto(w, label) == pc' = [pc EXCEPT ![w] = label]
Alive == main # "exited"
Accepting == main \in {"serving", "waitRun"}    \* srv.Shutdown has not been called

-----------------------------------------------------------------------------
(* Start: check, validate unlocked, check again and launch.                *)

\* api.handleStart: not while a bench is running.
StartRequest(c) ==
    /\ "start" \in Requests /\ Accepting /\ pc[c] = "idle"
    /\ ~bench
    /\ Goto(c, "startCheck")
    /\ UNCHANGED <<ctlVars, runVars, workVars, hostVars, baseVars, cpuVars, bench, mainVars>>

StartCheck(c) ==
    /\ pc[c] = "startCheck"
    /\ Goto(c, IF Busy THEN "idle" ELSE "validate")
    /\ UNCHANGED <<ctlVars, runVars, workVars, hostVars, baseVars, cpuVars, bench, mainVars>>

\* Controller.Validate: the plan avoids the addresses the host has now.
StartValidate(c) ==
    /\ pc[c] = "validate"
    /\ \/ Goto(c, "idle") /\ job' = [job EXCEPT ![c] = NoJob]
       \/ \E sink \in Entry : \E p \in Plans(host, sink) :
            /\ job' = [job EXCEPT ![c] = [sink |-> sink, plan |-> p, cpus |-> Unpinned]]
            /\ Goto(c, "allocation")
    /\ UNCHANGED <<ctlVars, runVars, added, taken, routed, engines, hostVars, baseVars, cpuVars, bench, mainVars>>

\* Controller.allocation: the stored allocation, or an error if it no longer fits.
StartAllocation(c) ==
    /\ pc[c] = "allocation"
    /\ \/ Goto(c, "idle") /\ job' = [job EXCEPT ![c] = NoJob]
       \/ Goto(c, "commit") /\ job' = [job EXCEPT ![c].cpus = stored]
    /\ UNCHANGED <<ctlVars, runVars, added, taken, routed, engines, hostVars, baseVars, cpuVars, bench, mainVars>>

\* The second check and the launch, under c.mu.  At the bound MaxRuns the
\* request is refused.
StartCommit(c) ==
    LET r == current + 1
        finished == Append(past, current)
    IN  /\ pc[c] = "commit"
        /\ IF Busy \/ r > MaxRuns
           THEN /\ Goto(c, "idle")
                /\ job' = [job EXCEPT ![c] = NoJob]
                /\ UNCHANGED <<current, past, st>>
           ELSE /\ past' = IF current = NoRun THEN past
                          ELSE IF Len(finished) > KeptReports THEN Tail(finished) ELSE finished
                /\ current' = r
                /\ st' = [st EXCEPT ![r] = "configuring"]
                /\ job' = [job EXCEPT ![r] = job[c], ![c] = NoJob]
                /\ pc' = [pc EXCEPT ![c] = "idle", ![r] = "pin"]
        /\ UNCHANGED <<pinging, stopReason, ctxDone, aborted, timer, failed, added, taken, routed, engines,
                       hostVars, baseVars, cpuVars, bench, mainVars>>

-----------------------------------------------------------------------------
(* Stop, the maximum duration, and the process's shutdown.                 *)

\* Mutants of RequestStop: the client's word stored as it came; the reason
\* forgotten.
RequestStopVerbatim(r, reason) ==
    /\ stopReason' = [stopReason EXCEPT ![r] = IF reason = "user" THEN "stop" ELSE reason]
    /\ ctxDone' = [ctxDone EXCEPT ![r] = TRUE]

RequestStopSilently(r, reason) ==
    ctxDone' = [ctxDone EXCEPT ![r] = TRUE] /\ UNCHANGED stopReason

\* run.requestStop: the first reason given is kept.
RequestStop(r, reason) ==
    /\ stopReason' = [stopReason EXCEPT ![r] = IF @ = "" THEN reason ELSE @]
    /\ ctxDone' = [ctxDone EXCEPT ![r] = TRUE]

\* Controller.Stop: a Stop during cleanup aborts the rest of it instead.  It looks
\* at the run's state before it acts, so the run it acts on may have gone on since,
\* and even have finished.
StopRequest(r) ==
    /\ "stop" \in Requests /\ Accepting
    /\ \/ st[r] # "none" /\ RequestStop(r, "user") /\ UNCHANGED aborted
       \/ /\ st[r] \in {"stopping", "stopped"}
          /\ aborted' = [aborted EXCEPT ![r] = TRUE]
          /\ UNCHANGED <<stopReason, ctxDone>>
    /\ UNCHANGED <<ctlVars, st, timer, failed, pc, workVars, hostVars, baseVars, cpuVars, bench, mainVars>>

TimerFires(r) ==
    /\ timer[r]
    /\ timer' = [timer EXCEPT ![r] = FALSE]
    /\ RequestStop(r, "maxDuration")
    /\ UNCHANGED <<ctlVars, st, aborted, failed, pc, workVars, hostVars, baseVars, cpuVars, bench, mainVars>>

\* A termination signal: serve calls Controller.Shutdown.
Signal ==
    /\ "signal" \in Requests /\ main = "serving"
    /\ main' = IF current = NoRun THEN "draining" ELSE "waitRun"
    /\ awaited' = current
    /\ IF RunActive
       THEN RequestStop(current, "user") /\ aborted' = [aborted EXCEPT ![current] = TRUE]
       ELSE UNCHANGED <<stopReason, ctxDone, aborted>>
    /\ UNCHANGED <<ctlVars, st, timer, failed, pc, workVars, hostVars, baseVars, cpuVars, bench>>

\* Shutdown returns once the run it read is done; srv.Shutdown then refuses
\* new requests.
ShutdownReturns ==
    /\ main = "waitRun" /\ pc[awaited] = "done"
    /\ main' = "draining"
    /\ UNCHANGED <<ctlVars, runVars, pc, workVars, hostVars, baseVars, cpuVars, bench, awaited>>

\* srv.Shutdown has waited for the handlers (5 s; a ping test, the longest, takes 3.4 s);
\* every goroutine ends here.
Exit ==
    /\ main = "draining" /\ \A c \in Callers : pc[c] = "idle"
    /\ main' = "exited"
    /\ UNCHANGED <<ctlVars, runVars, pc, workVars, hostVars, baseVars, cpuVars, bench, awaited>>

-----------------------------------------------------------------------------
(* placeAddr and undo, by a run (its N6 sink) or a ping test.              *)

\* Mutant of GiveUp: a ping test that failed is tried again.
GiveUpAndRetry(w) ==
    /\ Goto(w, IF w \in Runs THEN "unroute" ELSE "resolve")
    /\ failed' = [r \in Runs |-> failed[r] \/ r = w]

\* A run whose configuration failed removes what it added and fails; a ping
\* test answers with the error.
GiveUp(w) ==
    /\ Goto(w, IF w \in Runs THEN "unroute" ELSE "pingEnd")
    /\ failed' = [r \in Runs |-> failed[r] \/ r = w]

Placed(w) == Goto(w, IF w \in Runs THEN "addrs" ELSE "ping")

\* FindAddr, and Remove of an entry with another prefix length.  It fails
\* when another interface has the IP.
PlaceTake(w) ==
    LET want == job[w].sink
        have == { e \in host : e[1] = want[1] }
    IN  /\ pc[w] = "take"
        /\ \/ GiveUp(w) /\ UNCHANGED <<host, taken>>
           \/ have = {} /\ Goto(w, "add") /\ UNCHANGED <<host, taken, failed>>
           \/ want \in have /\ Placed(w) /\ UNCHANGED <<host, taken, failed>>
           \/ \E e \in have \ {want} :
                /\ host' = host \ {e}
                /\ taken' = [taken EXCEPT ![w] = {e}]
                /\ Goto(w, "add")
                /\ UNCHANGED failed
        /\ UNCHANGED <<ctlVars, st, stopReason, ctxDone, aborted, timer, job, added, routed, engines,
                       route, refused, baseVars, cpuVars, bench, mainVars>>

\* Add; if that fails, the entry taken off is put back.
PlaceAdd(w) ==
    LET want == job[w].sink
    IN  /\ pc[w] = "add"
        /\ \/ /\ want \notin host
              /\ host' = host \cup {want}
              /\ added' = [added EXCEPT ![w] = Append(@, [addr |-> want, replaced |-> taken[w]])]
              /\ Placed(w)
              /\ UNCHANGED <<failed, refused>>
           \/ /\ \/ host' = host \cup taken[w] /\ UNCHANGED refused
                 \/ UndoFails /\ taken[w] # {} /\ refused' = TRUE /\ UNCHANGED host
              /\ GiveUp(w)
              /\ UNCHANGED added
        /\ taken' = [taken EXCEPT ![w] = {}]
        /\ UNCHANGED <<ctlVars, st, stopReason, ctxDone, aborted, timer, job, routed, engines,
                       route, baseVars, cpuVars, bench, mainVars>>

\* undo: removeIPs walks the changes backwards, a ping undoes its one.
UndoRemove(w) ==
    LET ch == added[w][Len(added[w])]
    IN  /\ pc[w] = "undo"
        /\ IF added[w] = <<>>
           THEN /\ Goto(w, IF w \in Runs THEN "finish" ELSE "pingEnd")
                /\ UNCHANGED <<host, refused, added, taken>>
           ELSE /\ \/ host' = host \ {ch.addr} /\ UNCHANGED refused
                   \/ UndoFails /\ refused' = TRUE /\ UNCHANGED host
                /\ added' = [added EXCEPT ![w] = SubSeq(@, 1, Len(@) - 1)]
                /\ taken' = [taken EXCEPT ![w] = ch.replaced]
                /\ Goto(w, IF ch.replaced = {} THEN "undo" ELSE "putBack")
        /\ UNCHANGED <<ctlVars, runVars, job, routed, engines, route, baseVars, cpuVars, bench, mainVars>>

UndoPutBack(w) ==
    /\ pc[w] = "putBack"
    /\ \/ host' = host \cup taken[w] /\ UNCHANGED refused
       \/ UndoFails /\ refused' = TRUE /\ UNCHANGED host
    /\ taken' = [taken EXCEPT ![w] = {}]
    /\ Goto(w, "undo")
    /\ UNCHANGED <<ctlVars, runVars, job, added, routed, engines, route, baseVars, cpuVars, bench, mainVars>>

-----------------------------------------------------------------------------
(* run.execute, phase by phase.                                            *)

\* The maxDuration timer is armed and the process is kept to the run's CPUs.
Pin(r) ==
    /\ pc[r] = "pin"
    /\ timer' = [timer EXCEPT ![r] = Timed]
    /\ procCpus' = IF job[r].cpus = Unpinned THEN procCpus ELSE job[r].cpus
    /\ Goto(r, "take")
    /\ UNCHANGED <<ctlVars, st, stopReason, ctxDone, aborted, failed, workVars, hostVars, baseVars, stored, bench, mainVars>>

\* configureIPs' loop over the plan (job[r].plan: the addresses still to
\* add).  A stopping run returns before the next one.
AddGnbAddr(r) ==
    LET e == Head(job[r].plan)
    IN  /\ pc[r] = "addrs" /\ job[r].plan # <<>>
        /\ \/ /\ ctxDone[r]
              /\ Goto(r, "engine")
              /\ UNCHANGED <<host, added, job, failed>>
           \/ /\ ~ctxDone[r] /\ e \notin host
              /\ host' = host \cup {e}
              /\ added' = [added EXCEPT ![r] = Append(@, [addr |-> e, replaced |-> {}])]
              /\ job' = [job EXCEPT ![r].plan = Tail(@)]
              /\ UNCHANGED <<pc, failed>>
           \/ /\ ~ctxDone[r]
              /\ GiveUp(r)
              /\ UNCHANGED <<host, added, job>>
        /\ UNCHANGED <<ctlVars, st, stopReason, ctxDone, aborted, timer, taken, routed, engines,
                       route, refused, baseVars, cpuVars, bench, mainVars>>

\* EnsureRoute: an identical route is left alone and not recorded.
EnsureRoute(r) ==
    /\ pc[r] = "addrs" /\ job[r].plan = <<>>
    /\ \/ /\ route' = TRUE
          /\ routed' = [routed EXCEPT ![r] = ~route]
          /\ Goto(r, "engine")
          /\ UNCHANGED failed
       \/ GiveUp(r) /\ UNCHANGED <<route, routed>>
    /\ UNCHANGED <<ctlVars, st, stopReason, ctxDone, aborted, timer, job, added, taken, engines,
                   host, refused, baseVars, cpuVars, bench, mainVars>>

\* Mutant of StartDataplane: the check for Stop is dropped.
StartDataplaneAnyway(r) ==
    /\ pc[r] = "engine"
    /\ Goto(r, "launch") /\ engines' = engines \cup {r}
    /\ UNCHANGED <<ctlVars, runVars, job, added, taken, routed, hostVars, baseVars, cpuVars, bench, mainVars>>

\* startDataplane, unless Stop arrived while the IPs were added.
StartDataplane(r) ==
    /\ pc[r] = "engine"
    /\ \/ ctxDone[r] /\ Goto(r, "launch") /\ UNCHANGED <<engines, failed>>
       \/ ~ctxDone[r] /\ Goto(r, "launch") /\ engines' = engines \cup {r} /\ UNCHANGED failed
       \/ ~ctxDone[r] /\ GiveUp(r) /\ UNCHANGED engines
    /\ UNCHANGED <<ctlVars, st, stopReason, ctxDone, aborted, timer, job, added, taken, routed,
                   hostVars, baseVars, cpuVars, bench, mainVars>>

LaunchN2(r) ==
    /\ pc[r] = "launch"
    /\ IF ctxDone[r]
       THEN Goto(r, "stop") /\ UNCHANGED st
       ELSE Goto(r, "n2") /\ st' = [st EXCEPT ![r] = "n2"]
    /\ UNCHANGED <<ctlVars, stopReason, ctxDone, aborted, timer, failed, workVars, hostVars, baseVars, cpuVars, bench, mainVars>>

\* runN2 has returned.
N2Returns(r) ==
    /\ pc[r] = "n2"
    /\ IF ctxDone[r]
       THEN Goto(r, "stop") /\ UNCHANGED st
       ELSE Goto(r, "hold") /\ st' = [st EXCEPT ![r] = "running"]
    /\ UNCHANGED <<ctlVars, stopReason, ctxDone, aborted, timer, failed, workVars, hostVars, baseVars, cpuVars, bench, mainVars>>

\* Mutant of Stopping: only a run that got as far as holding is cleaned up.
StoppingFromHold(r) ==
    /\ pc[r] = "hold" /\ ctxDone[r]
    /\ st' = [st EXCEPT ![r] = "stopping"]
    /\ Goto(r, "cleanup")
    /\ UNCHANGED <<ctlVars, stopReason, ctxDone, aborted, timer, failed, workVars, hostVars, baseVars, cpuVars, bench, mainVars>>

Stopping(r) ==
    /\ \/ pc[r] = "hold" /\ ctxDone[r]
       \/ pc[r] = "stop"
    /\ st' = [st EXCEPT ![r] = "stopping"]
    /\ Goto(r, "cleanup")
    /\ UNCHANGED <<ctlVars, stopReason, ctxDone, aborted, timer, failed, workVars, hostVars, baseVars, cpuVars, bench, mainVars>>

\* Traffic stops; then the pipeline drains, deregisters and closes (Pipeline).
Cleanup(r) ==
    /\ pc[r] = "cleanup"
    /\ engines' = engines \ {r}
    /\ Goto(r, "unroute")
    /\ UNCHANGED <<ctlVars, runVars, job, added, taken, routed, hostVars, baseVars, cpuVars, bench, mainVars>>

\* Mutant of RemoveRoute: a route that was there before goes too.
RemoveAnyRoute(r) ==
    /\ pc[r] = "unroute"
    /\ route' = FALSE /\ routed' = [routed EXCEPT ![r] = FALSE]
    /\ Goto(r, "undo")
    /\ UNCHANGED <<ctlVars, runVars, job, added, taken, engines, host, refused, baseVars, cpuVars, bench, mainVars>>

\* removeIPs: the routes first, then the addresses (UndoRemove).
RemoveRoute(r) ==
    /\ pc[r] = "unroute"
    /\ \/ route' = (route /\ ~routed[r]) /\ UNCHANGED refused
       \/ UndoFails /\ routed[r] /\ refused' = TRUE /\ UNCHANGED route
    /\ routed' = [routed EXCEPT ![r] = FALSE]
    /\ Goto(r, "undo")
    /\ UNCHANGED <<ctlVars, runVars, job, added, taken, engines, host, baseVars, cpuVars, bench, mainVars>>

\* setState(StateStopped), or StateFailed on the error path.
Finish(r) ==
    /\ pc[r] = "finish"
    /\ st' = [st EXCEPT ![r] = IF failed[r] THEN "failed" ELSE "stopped"]
    /\ Goto(r, "unpin")
    /\ UNCHANGED <<ctlVars, stopReason, ctxDone, aborted, timer, failed, workVars, hostVars, baseVars, cpuVars, bench, mainVars>>

\* Mutant of Unpin: a failed run returns without it.
UnpinUnlessFailed(r) ==
    /\ pc[r] = "unpin"
    /\ procCpus' = IF job[r].cpus = Unpinned \/ failed[r] THEN procCpus ELSE Unpinned
    /\ Goto(r, "return")
    /\ UNCHANGED <<ctlVars, runVars, workVars, hostVars, baseVars, stored, bench, mainVars>>

\* The deferred SetProcessCpus(AllowedCpus()): back to every CPU.
Unpin(r) ==
    /\ pc[r] = "unpin"
    /\ procCpus' = IF job[r].cpus = Unpinned THEN procCpus ELSE Unpinned
    /\ Goto(r, "return")
    /\ UNCHANGED <<ctlVars, runVars, workVars, hostVars, baseVars, stored, bench, mainVars>>

\* The other deferred calls: the timer, the cleanup context, close(done).  The
\* goroutine's own variables are gone.
Done(r) ==
    /\ pc[r] = "return"
    /\ timer' = [timer EXCEPT ![r] = FALSE]
    /\ aborted' = [aborted EXCEPT ![r] = TRUE]
    /\ job' = [job EXCEPT ![r] = NoJob]
    /\ Goto(r, "done")
    /\ UNCHANGED <<ctlVars, st, stopReason, ctxDone, failed, added, taken, routed, engines, hostVars, baseVars, cpuVars, bench, mainVars>>

-----------------------------------------------------------------------------
(* Ping, SetCpus and the bench.                                            *)

PingRequest(c) ==
    /\ "ping" \in Requests /\ Accepting /\ pc[c] = "idle"
    /\ ~Busy
    /\ pinging' = TRUE
    /\ Goto(c, "resolve")
    /\ UNCHANGED <<current, past, runVars, workVars, hostVars, baseVars, cpuVars, bench, mainVars>>

\* PingTargetFor: N6 uses the sink, N2 and N3 an IP the host does not have.
PingResolve(c) ==
    /\ pc[c] = "resolve"
    /\ \/ Goto(c, "pingEnd") /\ UNCHANGED job
       \/ \E source \in Entry :
            /\ job' = [job EXCEPT ![c].sink = source]
            /\ Goto(c, "take")
    /\ UNCHANGED <<ctlVars, runVars, added, taken, routed, engines, hostVars, baseVars, cpuVars, bench, mainVars>>

PingReplies(c) ==
    /\ pc[c] = "ping"
    /\ Goto(c, "undo")
    /\ UNCHANGED <<ctlVars, runVars, workVars, hostVars, baseVars, cpuVars, bench, mainVars>>

PingEnd(c) ==
    /\ pc[c] = "pingEnd"
    /\ pinging' = FALSE
    /\ job' = [job EXCEPT ![c] = NoJob]
    /\ Goto(c, "idle")
    /\ UNCHANGED <<current, past, runVars, added, taken, routed, engines, hostVars, baseVars, cpuVars, bench, mainVars>>

\* SetCpus checks for a run under c.mu, but saves after releasing it.
SetCpusRequest(c) ==
    /\ "setCpus" \in Requests /\ Accepting /\ pc[c] = "idle"
    /\ ~RunActive
    /\ Goto(c, "save")
    /\ UNCHANGED <<ctlVars, runVars, workVars, hostVars, baseVars, cpuVars, bench, mainVars>>

SetCpusSave(c) ==
    /\ pc[c] = "save"
    /\ stored' \in Allocations
    /\ Goto(c, "idle")
    /\ UNCHANGED <<ctlVars, runVars, workVars, hostVars, baseVars, procCpus, bench, mainVars>>

\* bench.Runner.Start, under its own lock.
BenchStart ==
    /\ "bench" \in Requests /\ Accepting
    /\ ~bench /\ ~RunActive
    /\ bench' = TRUE
    /\ UNCHANGED <<ctlVars, runVars, pc, workVars, hostVars, baseVars, cpuVars, mainVars>>

BenchEnds ==
    /\ bench
    /\ bench' = FALSE
    /\ UNCHANGED <<ctlVars, runVars, pc, workVars, hostVars, baseVars, cpuVars, mainVars>>

-----------------------------------------------------------------------------
Place(w) == PlaceTake(w) \/ PlaceAdd(w) \/ UndoRemove(w) \/ UndoPutBack(w)

Request(c) == StartRequest(c) \/ PingRequest(c) \/ SetCpusRequest(c)

Handle(c) ==
    \/ StartCheck(c) \/ StartValidate(c) \/ StartAllocation(c) \/ StartCommit(c)
    \/ PingResolve(c) \/ PingReplies(c) \/ PingEnd(c)
    \/ SetCpusSave(c)
    \/ Place(c)

Execute(r) ==
    \/ Pin(r) \/ Place(r) \/ AddGnbAddr(r) \/ EnsureRoute(r) \/ StartDataplane(r)
    \/ LaunchN2(r) \/ N2Returns(r) \/ Stopping(r) \/ Cleanup(r)
    \/ RemoveRoute(r) \/ Finish(r) \/ Unpin(r) \/ Done(r)

Next ==
    /\ Alive
    /\ \/ \E c \in Callers : Request(c) \/ Handle(c)
       \/ \E r \in Runs : Execute(r) \/ StopRequest(r) \/ TimerFires(r)
       \/ BenchStart \/ BenchEnds
       \/ Signal \/ ShutdownReturns \/ Exit

Spec == Init /\ [][Next]_vars

\* The Go scheduler runs every ready goroutine: a handler and an execute
\* goroutine go on (runN2 returns within its attempts' timeouts), and serve
\* goes on once Shutdown returns.  Requests, signals and the timer may never come.
FairSpec ==
    /\ Spec
    /\ \A c \in Callers : WF_vars(Alive /\ Handle(c))
    /\ \A r \in Runs : WF_vars(Alive /\ Execute(r))
    /\ WF_vars(Alive /\ ShutdownReturns)
    /\ WF_vars(Alive /\ Exit)

-----------------------------------------------------------------------------
(* Properties.                                                             *)

CtlTypes ==
    /\ current \in {NoRun} \cup Runs /\ pinging \in BOOLEAN /\ past \in Seq(Runs)

RunTypes ==
    /\ st \in [Runs -> RunStates]
    /\ stopReason \in [Runs -> {"", "user", "maxDuration"}]
    /\ ctxDone \in [Runs -> BOOLEAN] /\ aborted \in [Runs -> BOOLEAN]
    /\ timer \in [Runs -> BOOLEAN] /\ failed \in [Runs -> BOOLEAN]

WorkTypes ==
    /\ job \in [Workers -> Job]
    /\ added \in [Workers -> Seq(Change)]
    /\ taken \in [Workers -> SUBSET Entry]
    /\ routed \in [Runs -> BOOLEAN] /\ engines \in SUBSET Runs

HostTypes ==
    /\ host \in SUBSET Entry /\ route \in BOOLEAN /\ refused \in BOOLEAN
    /\ hostBefore \in SUBSET Entry /\ routeBefore \in BOOLEAN

ProcessTypes ==
    /\ procCpus \in Allocations /\ stored \in Allocations
    /\ bench \in BOOLEAN
    /\ main \in {"serving", "waitRun", "draining", "exited"} /\ awaited \in {NoRun} \cup Runs

TypeOK ==
    /\ CtlTypes /\ RunTypes /\ WorkTypes /\ HostTypes /\ ProcessTypes
    /\ pc \in [Workers -> RunPCs \cup CallerPCs \cup PlacePCs]

\* Workers between their first and their last change to the host.
PlacingRun(r)    == pc[r] \in {"pin", "addrs", "engine", "launch", "n2", "hold",
                               "stop", "cleanup", "unroute", "finish"} \cup PlacePCs
PingingCaller(c) == pc[c] \in {"resolve", "ping", "pingEnd"} \cup PlacePCs

\* One at a time (design Q17; Start's two checks and Ping's): the host is being
\* changed by the run started last, or by one ping test, and never by both --
\* however the checks of concurrent Start and Ping requests interleave.
OneUser ==
    /\ \A r \in Runs : PlacingRun(r) => r = current /\ RunActive
    /\ \A c, d \in Callers : PingingCaller(c) /\ PingingCaller(d) => c = d
    /\ \A c \in Callers : PingingCaller(c) => pinging
    /\ ~(pinging /\ RunActive)

\* removeIPs and undo restore the host exactly: with no run active and no ping
\* test, every address and route is as it was before the tester started, also
\* after a Stop in the middle of configureIPs or a failure half way through it.
HostRestored ==
    ~RunActive /\ ~pinging /\ ~refused => host = hostBefore /\ route = routeBefore

\* An address of the host's own that is off it is on record for putting back
\* (addrChange.replaced), at every step of placeAddr and undo.
NoEntryForgotten ==
    ~refused => \A e \in hostBefore \ host : \E w \in Workers :
                    \/ e \in taken[w]
                    \/ \E i \in DOMAIN added[w] : e \in added[w][i].replaced

\* With no run active and no ping test the host is as it was before the tester, and until
\* then an address of the host's own that is off it is on record for putting back, at every
\* step of placeAddr and undo (removeIPs in controller.go, placeAddr and undo in addr.go).
HostKept == HostRestored /\ NoEntryForgotten

\* The data plane's sockets are bound to the gNBs' addresses: while an engine
\* is open its run has every planned address on the host and the route, and
\* no other run's engine is open.
EngineHasAddresses ==
    \A r \in engines :
        /\ r = current /\ RunActive
        /\ route /\ job[r].plan = <<>>
        /\ \A i \in DOMAIN added[r] : added[r][i].addr \in host

\* A run that is stopping or stopped says why (Snapshot.StopReason is "user" or
\* "maxDuration"), whichever of Stop, Shutdown and the timer came first.
StopReasonKnown ==
    \A r \in Runs : st[r] \in {"stopping", "stopped"} => stopReason[r] # ""

\* The loop of Reports: the finished ones of some runs, in their order.
FinishedOf(runs) ==
    LET out[i \in 0..Len(runs)] ==
            IF i = 0 THEN <<>>
            ELSE IF st[runs[i]] \in {"stopped", "failed"} THEN Append(out[i - 1], runs[i]) ELSE out[i - 1]
    IN  out[Len(runs)]

PastAndCurrent == IF current = NoRun THEN past ELSE Append(past, current)

\* Mutant of Reports: the list is not cut to the newest.
ReportsUncut == FinishedOf(PastAndCurrent)

\* Controller.Reports: past and current, finished only, the newest KeptReports.
Reports ==
    LET out == FinishedOf(PastAndCurrent)
    IN  IF Len(out) > KeptReports THEN SubSeq(out, Len(out) - KeptReports + 1, Len(out)) ELSE out

\* fru-lab polls Reports: it holds the newest KeptReports finished runs, oldest
\* first, so a run followed at once by the next is still picked up.
ReportsAreNewest ==
    LET finished == { r \in Runs : st[r] \in {"stopped", "failed"} }
        newest == { r \in finished : Cardinality({ q \in finished : q > r }) < KeptReports }
    IN  /\ { Reports[i] : i \in DOMAIN Reports } = newest
        /\ \A i, j \in DOMAIN Reports : i < j => Reports[i] < Reports[j]

\* A run asked to stop, by whoever and in whichever phase, finishes.
StopEndsRun ==
    \A r \in Runs : ctxDone[r] ~> (st[r] \in {"stopped", "failed"} \/ ~Alive)

\* A request handler returns, whatever runs and other requests do.
HandlersReturn ==
    \A c \in Callers : pc[c] # "idle" ~> pc[c] = "idle"

\* A run's pin never outlives the last run: once no execute
\* goroutine is left, the process has all its CPUs back, however the un-pinning of
\* one run and the pinning of the next interleave.
CpusReleased ==
    (\A r \in Runs : pc[r] \in {"none", "done"}) => procCpus = Unpinned

\* A termination signal ends the process, also if it arrives during a run.
SignalEndsProcess == main = "waitRun" ~> main = "exited"

\* The controller implements the lease on the host's network configuration.
Owner ==
    IF pinging THEN <<"ping", 0>>
    ELSE IF RunActive THEN <<"run", current>> ELSE <<"free", 0>>

Lease == INSTANCE HostLease WITH
    Users   <- {<<"ping", 0>>} \cup {<<"run", r>> : r \in Runs},
    Free    <- <<"free", 0>>,
    Configs <- (SUBSET Entry) \X BOOLEAN,
    owner   <- Owner,
    config  <- <<host, route>>,
    base    <- <<hostBefore, routeBefore>>

ImplementsLease == Lease!Spec

-----------------------------------------------------------------------------
(* What the comments and the design say, and the code does not keep.       *)

\* root.go:75, Shutdown's comment: the active run is stopped and the gNB IPs are
\* removed before the process exits.
ExitRestoresHost == main = "exited" /\ ~refused => host = hostBefore /\ route = routeBefore

=============================================================================
