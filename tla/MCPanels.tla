------------------------------ MODULE MCPanels ------------------------------
(***************************************************************************)
(* The pages of the web frontend that must keep up with a tester or with   *)
(* a backend, for TLC, one open at a time as in MCPages, with the fairness *)
(* of their timers and requests: a timer that is set fires, a request is   *)
(* handled and its answer arrives.  Nobody has to click.                   *)
(***************************************************************************)
EXTENDS Integers, Sequences, TLC

CONSTANT None

VARIABLES
    view,           \* the open page
    s1, s2, s3, s4, s5, s6, s7, s8, s9, s10, s11, s12, s13, s14, s15, s16

vars == <<view, s1, s2, s3, s4, s5, s6, s7, s8, s9, s10, s11, s12, s13, s14, s15, s16>>

S == INSTANCE Session WITH
    Requests <- {1}, Logins <- 2, SessionEvents <- 3, path <- s1, token <- s2, expired <- s3,
    issued <- s4, signing <- s5, hidden <- s6, polls <- s7, live <- s8, epoch <- s9, cached <- s10,
    pendingLogin <- s11, requests <- s12, outcome <- s13, sessionEvents <- s14

P == INSTANCE TesterPanel WITH
    Lists <- {"", "0", "x"}, CpuLists <- {"", "0"}, Unpinned <- "", PanelEvents <- 3, known <- s1,
    up <- s2, active <- s3, cpus <- s4, reach <- s5, wasDown <- s6, running <- s7, layout <- s8,
    alloc <- s9, allocSaved <- s10, refused <- s11, put <- s12, statusReqs <- s13, runReqs <- s14,
    systemReqs <- s15, panelEvents <- s16

B == INSTANCE Bench WITH
    Testers <- {"d", "t"}, Planned <- <<1>>, BenchEvents <- 2, bench <- s1, active <- s2,
    testerId <- s3, result <- s4, loads <- s5, isStarting <- s6, benchEvents <- s7

R == INSTANCE Runs WITH
    Testers <- {"d"}, RunsEvents <- 3, run <- s1, alive <- s2, listed <- s3, listing <- s4,
    names <- s5, naming <- s6, runs <- s7, reads <- s8, hidden <- s9, runsEvents <- s10

\* The variables after the k-th are not the page's.
Blank(k) ==
    /\ IF k < 8 THEN s8 = 0 ELSE TRUE
    /\ IF k < 9 THEN s9 = 0 ELSE TRUE
    /\ IF k < 10 THEN s10 = 0 ELSE TRUE
    /\ IF k < 11 THEN s11 = 0 ELSE TRUE
    /\ IF k < 12 THEN s12 = 0 ELSE TRUE
    /\ IF k < 13 THEN s13 = 0 ELSE TRUE
    /\ IF k < 14 THEN s14 = 0 ELSE TRUE
    /\ IF k < 15 THEN s15 = 0 ELSE TRUE
    /\ IF k < 16 THEN s16 = 0 ELSE TRUE

Init ==
    \/ view = "session" /\ S!Init /\ Blank(14)
    \/ view = "panel" /\ P!Init /\ Blank(16)
    \/ view = "bench" /\ B!Init /\ Blank(7)
    \/ view = "runs" /\ R!Init /\ Blank(10)

Next ==
    \/ view = "session" /\ S!Next /\ UNCHANGED <<view, s15, s16>>
    \/ view = "panel" /\ P!Next /\ view' = view
    \/ view = "bench" /\ B!Next /\ UNCHANGED <<view, s8, s9, s10, s11, s12, s13, s14, s15, s16>>
    \/ view = "runs" /\ R!Next /\ UNCHANGED <<view, s11, s12, s13, s14, s15, s16>>

sessionVars == <<s1, s2, s3, s4, s5, s6, s7, s8, s9, s10, s11, s12, s13, s14>>
panelVars == <<s1, s2, s3, s4, s5, s6, s7, s8, s9, s10, s11, s12, s13, s14, s15, s16>>
benchVars == <<s1, s2, s3, s4, s5, s6, s7>>
runsVars == <<s1, s2, s3, s4, s5, s6, s7, s8, s9, s10>>

Fairness ==
    \* Session
    /\ WF_sessionVars(view = "session" /\ S!Poll)
    /\ WF_sessionVars(view = "session" /\ S!LoginHandled)
    /\ WF_sessionVars(view = "session" /\ S!LoginAnswered)
    /\ WF_sessionVars(view = "session" /\ S!Asked(1))
    /\ \A p \in S!Reads : WF_sessionVars(view = "session" /\ p \in s7 /\ S!Polled(p))
    \* TesterPanel
    /\ WF_panelVars(view = "panel" /\ P!Poll)
    /\ WF_panelVars(view = "panel" /\ P!StatusHandled)
    /\ WF_panelVars(view = "panel" /\ P!RunHandled)
    /\ WF_panelVars(view = "panel" /\ P!SystemHandled)
    /\ WF_panelVars(view = "panel" /\ P!SaveHandled)
    /\ WF_panelVars(view = "panel" /\ P!StatusRead)
    /\ WF_panelVars(view = "panel" /\ P!StatusLost)
    /\ WF_panelVars(view = "panel" /\ P!SaveAnswered)
    /\ \A a \in {"active", "over"} : WF_panelVars(view = "panel" /\ P!RunRead(a))
    /\ \A c \in {"", "0", "lost"} : WF_panelVars(view = "panel" /\ P!SystemRead(c))
    \* Bench
    /\ WF_benchVars(view = "bench" /\ B!Poll)
    /\ WF_benchVars(view = "bench" /\ (\E l \in s5 : B!LoadAnswered(l)))
    /\ WF_benchVars(view = "bench" /\ B!StartHandled)
    /\ WF_benchVars(view = "bench" /\ B!StartAnswered)
    /\ \A t \in {"d", "t"} : WF_benchVars(view = "bench" /\ B!Measured(t)) /\ WF_benchVars(view = "bench" /\ B!Done(t))
    /\ \A t \in {"d", "t"} : WF_benchVars(view = "bench" /\ B!Loaded(B!Ask(t)))
    \* Runs
    /\ WF_runsVars(view = "runs" /\ R!ListHandled)
    /\ WF_runsVars(view = "runs" /\ R!ListAnswered)
    /\ WF_runsVars(view = "runs" /\ R!Read)
    /\ WF_runsVars(view = "runs" /\ R!NameHandled("d"))
    /\ WF_runsVars(view = "runs" /\ R!NameAnswered("d"))
    /\ \A r \in R!Asked : WF_runsVars(view = "runs" /\ r \in s8 /\ (R!ReadHandled(r) \/ R!ReadAnswered(r)))

Spec == Init /\ [][Next]_vars /\ Fairness

-----------------------------------------------------------------------------
\* An expired session does not stay open, and a webconsole that forgot its tokens lets
\* requests through again (apiClient.ts:14-19, webconsoleApiClient.ts:58-69).
SessionHeals ==
    /\ []<>(view = "session" => S!SessionOver)
    /\ []<>(view = "session" => S!RequestsPass)

\* A tester that keeps answering ends up shown as it is, however many answers of an outage
\* are still on their way (TesterStatusPage.tsx:313).
OutageHeals == <>[](view = "panel" => P!Answering) => <>[](view = "panel" => P!ShownAsIs)

\* A bench that is over is not shown as measuring for ever, so that the page can be used
\* again: while it measures, neither the tester nor the settings can be changed
\* (TesterBenchPage.tsx:154-160, 219-261).  The cards of the runs page become those of the
\* runs that go on (TesterRunsPage.tsx:118-124).
PagesSettle ==
    /\ []<>(view = "bench" => B!Startable)
    /\ []<>(view = "runs" => R!Settled)
=============================================================================
