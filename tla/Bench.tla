------------------------------- MODULE Bench -------------------------------
(***************************************************************************)
(* The bench page (TesterBenchPage.tsx) and the testers' bench runners     *)
(* (bench.go).  A bench measures 1, 2, 4 ... senders, one after another;   *)
(* the page loads the bench of the tester picked, and again every second   *)
(* while what it shows is measuring.  Loads overlap, fail, and are         *)
(* answered late, for a tester picked before.                              *)
(***************************************************************************)
EXTENDS Naturals, Sequences, FiniteSets

CONSTANTS
    Testers,
    Planned,        \* senderCounts: the numbers of senders, in order
    BenchEvents,    \* bound: what users, test runs and the network do
    None

VARIABLES
    bench,          \* tester -> Runner.result
    active,         \* the testers with a test run active
    testerId,       \* from the URL, and current.current
    result,         \* None, or the tester it is of and its bench
    loads,          \* reads of a bench under way
    isStarting,     \* handleStart's request
    benchEvents

benchVars == <<bench, active, testerId, result, loads, isStarting, benchEvents>>

\* A bench has measured the first steps of the planned numbers of senders.
Benches == [st : {"idle", "running", "done", "failed"}, steps : 0 .. Len(Planned)]
NoBench == [st |-> "idle", steps |-> 0]
Answers == Testers \X Benches

\* A request, and its answer: a bench, or none.
Lost     == [st |-> "lost", steps |-> 0]
Requests == [tester : Testers, answer : {None, Lost} \cup Benches]
Ask(t)   == [tester |-> t, answer |-> None]

BenchTypeOK ==
    /\ bench \in [Testers -> Benches] /\ active \subseteq Testers /\ testerId \in Testers
    /\ result \in {None} \cup Answers
    /\ loads \subseteq Requests
    /\ isStarting \in {None} \cup Requests
    /\ benchEvents \in 0 .. BenchEvents

Happens == benchEvents < BenchEvents /\ benchEvents' = benchEvents + 1

Init ==
    /\ bench \in [Testers -> {NoBench, [st |-> "running", steps |-> 0]}] /\ active = {}
    /\ testerId \in Testers /\ result = None /\ loads = {Ask(testerId)}
    /\ isStarting = None /\ benchEvents = 0

pageState == <<testerId, result, loads, isStarting>>

-----------------------------------------------------------------------------
(* The tester. *)

Becomes(t, b) == bench' = [bench EXCEPT ![t] = b] /\ UNCHANGED <<active, pageState>>

\* Runner.execute: a step is measured, or a step fails and ends the bench.
Measured(t) ==
    /\ bench[t].st = "running" /\ bench[t].steps < Len(Planned)
    /\ \/ Becomes(t, [bench[t] EXCEPT !.steps = @ + 1]) /\ UNCHANGED benchEvents
       \/ Happens /\ Becomes(t, [bench[t] EXCEPT !.st = "failed"])

Done(t) ==
    /\ bench[t].st = "running" /\ bench[t].steps = Len(Planned)
    /\ Becomes(t, [bench[t] EXCEPT !.st = "done"]) /\ UNCHANGED benchEvents

\* Test runs come and go; none starts while a bench measures.
RunChanges(t) ==
    /\ Happens /\ bench[t].st # "running"
    /\ active' = IF t \in active THEN active \ {t} ELSE active \cup {t}
    /\ UNCHANGED <<bench, pageState>>

\* Runner.Start, and the answer: refused while a bench or a test run goes.
StartHandled ==
    LET t == isStarting.tester
        ok == bench[t].st # "running" /\ t \notin active
        new == [st |-> "running", steps |-> 0] IN
    /\ isStarting # None /\ isStarting.answer = None
    /\ bench' = IF ok THEN [bench EXCEPT ![t] = new] ELSE bench
    /\ isStarting' = [isStarting EXCEPT !.answer = IF ok THEN new ELSE Lost]
    /\ UNCHANGED <<active, testerId, result, loads, benchEvents>>

LoadHandled(l) ==
    /\ l.answer = None
    /\ \/ /\ loads' = (loads \ {l}) \cup {[l EXCEPT !.answer = bench[l.tester]]}
          /\ UNCHANGED benchEvents
       \/ Happens /\ loads' = (loads \ {l}) \cup {[l EXCEPT !.answer = Lost]}
    /\ UNCHANGED <<bench, active, testerId, result, isStarting>>

-----------------------------------------------------------------------------
(* The page. *)

IsRunning == result # None /\ result[2].st = "running"

\* Of what is shown: the rows of the measurements table, and whether the
\* Start button works.
Steps     == IF result = None THEN <<>> ELSE SubSeq(Planned, 1, result[2].steps)
Pending   == IF IsRunning THEN SubSeq(Planned, Len(Steps) + 1, Len(Planned)) ELSE <<>>
Startable == ~IsRunning /\ isStarting = None

\* Both effects run again for the tester picked, unless one is measuring here.
PickTester(t) ==
    /\ t # testerId /\ ~IsRunning /\ Happens
    /\ testerId' = t /\ result' = None /\ loads' = loads \cup {Ask(t)}
    /\ UNCHANGED <<bench, active, isStarting>>

\* Mutant of Poll: the timer waits for the first step to show.
PollOnceMeasured ==
    /\ IsRunning /\ Steps # <<>>
    /\ loads' = loads \cup {Ask(testerId)} /\ loads' # loads
    /\ UNCHANGED <<bench, active, testerId, result, isStarting, benchEvents>>

\* The timer of a bench shown as measuring.
Poll ==
    /\ IsRunning
    /\ loads' = loads \cup {Ask(testerId)} /\ loads' # loads
    /\ UNCHANGED <<bench, active, testerId, result, isStarting, benchEvents>>

\* A reply for a tester picked before is dropped; a failed one clears the box.
LoadAnswered(l) ==
    /\ l.answer # None /\ loads' = loads \ {l}
    /\ result' = IF l.tester # testerId THEN result
                 ELSE IF l.answer = Lost THEN None ELSE <<l.tester, l.answer>>
    /\ UNCHANGED <<bench, active, testerId, isStarting, benchEvents>>

HandleStart ==
    /\ Startable /\ Happens /\ isStarting' = Ask(testerId)
    /\ UNCHANGED <<bench, active, testerId, result, loads>>

\* The answer is shown, whichever tester is picked by now.
StartAnswered ==
    /\ isStarting # None /\ isStarting.answer # None /\ isStarting' = None
    /\ result' = IF isStarting.answer = Lost THEN result ELSE <<isStarting.tester, isStarting.answer>>
    /\ UNCHANGED <<bench, active, testerId, loads, benchEvents>>

-----------------------------------------------------------------------------
Loaded(l) == l \in loads /\ (LoadHandled(l) \/ LoadAnswered(l))

Next ==
    \/ StartHandled \/ Poll \/ HandleStart \/ StartAnswered
    \/ \E l \in loads : Loaded(l)
    \/ \E t \in Testers : \/ Measured(t) \/ Done(t) \/ RunChanges(t) \/ PickTester(t)

=============================================================================
