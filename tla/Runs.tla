-------------------------------- MODULE Runs --------------------------------
(***************************************************************************)
(* The page of the runs going on (TesterRunsPage.tsx), over the list of    *)
(* testers (useTesters.ts).  Each tester names itself in an answer of its  *)
(* own, which makes a new list: the polling starts again with it, and      *)
(* what is still to come of the old polling is dropped.  Reads of the      *)
(* runs overlap and are answered in any order.                             *)
(***************************************************************************)
EXTENDS Naturals, FiniteSets

CONSTANTS
    Testers,
    RunsEvents,     \* bound: what the runs, the testers and the user do
    None

VARIABLES
    run,            \* tester -> the state of its run
    alive,          \* the testers that answer
    listed,         \* testers: None while loading, else those listed
    listing,        \* the request of the list
    names,          \* tester -> reachable: None until it answers or fails
    naming,         \* its status requests: <<tester, "sent" or the answer>>
    runs,           \* tester -> what is known of its run
    reads,          \* reads of a run under way
    hidden,         \* document.hidden
    runsEvents

runsVars == <<run, alive, listed, listing, names, naming, runs, reads, hidden, runsEvents>>

RunStates == {"idle", "active", "failed", "stopped"}

Asked     == [tester : Testers, answer : {"sent", "down"} \cup RunStates]

RunsTypeOK ==
    /\ run \in [Testers -> RunStates] /\ alive \subseteq Testers
    /\ (listed = None \/ listed \subseteq Testers) /\ listing \in {"sent", "ok", "failed", "over"}
    /\ names \in [Testers -> {None} \cup BOOLEAN] /\ naming \subseteq Testers \X {"sent", "ok", "lost"}
    /\ runs \in [Testers -> {"loading", "down"} \cup RunStates]
    /\ reads \subseteq Asked
    /\ hidden \in BOOLEAN /\ runsEvents \in 0 .. RunsEvents

Happens == runsEvents < RunsEvents /\ runsEvents' = runsEvents + 1

Init ==
    /\ run \in [Testers -> {"idle", "active"}] /\ alive \in SUBSET Testers
    /\ listed = None /\ listing = "sent" /\ names = [t \in Testers |-> None] /\ naming = {}
    /\ runs = [t \in Testers |-> "loading"] /\ reads = {} /\ hidden = FALSE
    /\ runsEvents = 0

-----------------------------------------------------------------------------
(* The testers, the backend and the user. *)

\* The states a run goes through.
RunMoves(t) ==
    /\ Happens
    /\ \E st \in IF run[t] = "active" THEN {"stopped"} ELSE {"active", "failed"} :
          run' = [run EXCEPT ![t] = st]
    /\ UNCHANGED <<alive, listed, listing, names, naming, runs, reads, hidden>>

AliveChanges(t) ==
    /\ Happens /\ alive' = IF t \in alive THEN alive \ {t} ELSE alive \cup {t}
    /\ UNCHANGED <<run, listed, listing, names, naming, runs, reads, hidden>>

Hide ==
    /\ Happens /\ hidden' = ~hidden
    /\ UNCHANGED <<run, alive, listed, listing, names, naming, runs, reads>>

ListHandled ==
    /\ listing = "sent"
    /\ \/ listing' = "ok" /\ UNCHANGED runsEvents
       \/ Happens /\ listing' = "failed"
    /\ UNCHANGED <<run, alive, listed, names, naming, runs, reads, hidden>>

NameHandled(t) ==
    /\ <<t, "sent">> \in naming
    /\ naming' = (naming \ {<<t, "sent">>}) \cup {<<t, IF t \in alive THEN "ok" ELSE "lost">>}
    /\ UNCHANGED <<run, alive, listed, listing, names, runs, reads, hidden, runsEvents>>

ReadHandled(r) ==
    /\ r.answer = "sent"
    /\ reads' = (reads \ {r}) \cup {[r EXCEPT !.answer = IF r.tester \in alive THEN run[r.tester] ELSE "down"]}
    /\ UNCHANGED <<run, alive, listed, listing, names, naming, runs, hidden, runsEvents>>

-----------------------------------------------------------------------------
(* The page. *)

\* read: every tester of the list is asked, unless nobody looks.
Asks(ts) == IF hidden THEN {} ELSE [tester : ts, answer : {"sent"}]

\* The list, and the requests of the names; or none when it failed.
ListAnswered ==
    /\ listing \in {"ok", "failed"} /\ listing' = "over"
    /\ IF listing = "ok" THEN listed' = Testers /\ naming' = Testers \X {"sent"} ELSE listed' = {} /\ naming' = {}
    /\ reads' = Asks(listed')
    /\ UNCHANGED <<run, alive, names, runs, hidden, runsEvents>>

\* Each answer makes a new list: the effect cleans up and starts again.
NameAnswered(t) ==
    /\ \E st \in {"ok", "lost"} :
        <<t, st>> \in naming /\ naming' = naming \ {<<t, st>>} /\ names' = [names EXCEPT ![t] = st = "ok"]
    /\ reads' = Asks(listed)
    /\ UNCHANGED <<run, alive, listed, listing, runs, hidden, runsEvents>>

\* The timer.
Read ==
    /\ listed # None
    /\ reads' = reads \cup Asks(listed) /\ reads' # reads
    /\ UNCHANGED <<run, alive, listed, listing, names, naming, runs, hidden, runsEvents>>

ReadAnswered(r) ==
    /\ r.answer # "sent" /\ reads' = reads \ {r}
    /\ runs' = [runs EXCEPT ![r.tester] = r.answer]
    /\ UNCHANGED <<run, alive, listed, listing, names, naming, hidden, runsEvents>>

\* The testers with a card, and whether the page still says it is loading.
Cards   == IF listed = None THEN {} ELSE {t \in listed : runs[t] \in {"down", "active", "failed"}}
Loading == listed = None \/ \E t \in listed : runs[t] = "loading"

-----------------------------------------------------------------------------
Next ==
    \/ Hide \/ ListHandled \/ ListAnswered \/ Read
    \/ \E t \in Testers : RunMoves(t) \/ AliveChanges(t) \/ NameHandled(t) \/ NameAnswered(t)
    \/ \E r \in reads : ReadHandled(r) \/ ReadAnswered(r)

-----------------------------------------------------------------------------
\* A page that is looked at shows one card for each run going on or failed and each tester
\* that cannot be asked, and no other, unless the list of testers failed
\* (TesterRunsPage.tsx:118-124).
Going(t)   == t \notin alive \/ run[t] \in {"active", "failed"}
CardsRight == ~Loading /\ Cards = {t \in Testers : Going(t)}
Settled    == hidden \/ listed = {} \/ CardsRight

=============================================================================
