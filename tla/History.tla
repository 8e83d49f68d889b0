------------------------------- MODULE History -------------------------------
(***************************************************************************)
(* The page of finished runs (TesterHistoryPage.tsx): a list read once,    *)
(* searched and paged; two runs can be ticked and compared; a run's report *)
(* is fetched to be saved, or shown in a tab opened before it is there.    *)
(***************************************************************************)
EXTENDS Integers, FiniteSets, Sequences

CONSTANTS
    Runs,           \* the runs stored, as numbers, in the order of the list
    Matches,        \* what the search and the filters may match
    PageRows,       \* HISTORY_PAGE
    HistoryEvents,  \* bound: what the user and the network do
    None

VARIABLES
    runs,           \* None while loading
    selected,       \* the ticked runs, the oldest pick first
    comparing,
    found,          \* those query, testerFilter and resultFilter match
    page,
    reports,        \* report's requests under way
    tabs,           \* the tabs opened: run -> what it shows
    historyEvents

historyVars == <<runs, selected, comparing, found, page, reports, tabs, historyEvents>>

Reports == [run : Runs, how : {"view", "download"}, st : {"sent", "ok", "lost"}]

Ticked == {selected[i] : i \in DOMAIN selected}

HistoryTypeOK ==
    /\ runs \in {None, Runs} /\ Len(selected) \in 0 .. 2 /\ Ticked \subseteq Runs
    /\ comparing \in BOOLEAN /\ found \in Matches /\ page \in 1 .. Cardinality(Runs)
    /\ reports \subseteq Reports /\ tabs \in [Runs -> {"none", "blank", "report", "closed"}]
    /\ historyEvents \in 0 .. HistoryEvents

Happens == historyEvents < HistoryEvents /\ historyEvents' = historyEvents + 1

Init ==
    /\ runs = None /\ selected = <<>> /\ comparing = FALSE /\ found = Runs /\ page = 1
    /\ reports = {} /\ tabs = [r \in Runs |-> "none"] /\ historyEvents = 0

-----------------------------------------------------------------------------
(* What is shown. *)

Filtered == IF runs = None THEN {} ELSE runs \cap found

\* pageOf.
Pages   == LET n == Cardinality(Filtered) IN IF n = 0 THEN 1 ELSE (n + PageRows - 1) \div PageRows
Current == IF page > Pages THEN Pages ELSE page
Rows    == {r \in Filtered : LET at == Cardinality({s \in Filtered : s < r})
                             IN  at >= (Current - 1) * PageRows /\ at < Current * PageRows}

\* The runs compared, in the order of the list, and whether they are shown.
Compared    == {r \in Ticked : runs # None /\ r \in runs}
ShowCompare == comparing /\ Cardinality(Compared) = 2

-----------------------------------------------------------------------------
Loaded ==
    /\ runs = None
    /\ runs' = Runs
    /\ UNCHANGED <<selected, comparing, found, page, reports, tabs, historyEvents>>

\* Any of the filters changes: back to the first page.
Search ==
    /\ runs # None /\ Happens /\ found' \in Matches \ {found} /\ page' = 1
    /\ UNCHANGED <<runs, selected, comparing, reports, tabs>>

TurnPage ==
    /\ runs # None /\ Happens
    /\ page' \in {Current - 1, Current + 1} \cap 1 .. Pages
    /\ UNCHANGED <<runs, selected, comparing, found, reports, tabs>>

Without(k) == SubSeq(selected, 1, k - 1) \o SubSeq(selected, k + 1, Len(selected))

\* A third pick drops the oldest; a run is ticked once.
Toggled(r) ==
    IF r \in Ticked THEN Without(CHOOSE i \in DOMAIN selected : selected[i] = r)
    ELSE IF Len(selected) = 2 THEN <<selected[2], r>> ELSE Append(selected, r)

\* The comparison ends when there are not two runs ticked.
Compares(ticked) == comparing /\ Len(ticked) = 2

Toggle ==
    /\ Happens /\ \E r \in Rows : selected' = Toggled(r)
    /\ comparing' = Compares(selected')
    /\ UNCHANGED <<runs, found, page, reports, tabs>>

Compare ==
    /\ Len(selected) = 2 /\ Happens /\ comparing' = ~comparing
    /\ UNCHANGED <<runs, selected, found, page, reports, tabs>>

\* report: a tab is opened at once, and stays blank until the report is here.
\* (Each request has a tab of its own; the model follows one per run.)
Report(r, how) ==
    /\ r \in Rows /\ Happens
    /\ \A p \in reports : p.run # r
    /\ reports' = reports \cup {[run |-> r, how |-> how, st |-> "sent"]}
    /\ tabs' = [tabs EXCEPT ![r] = IF how = "view" THEN "blank" ELSE @]
    /\ UNCHANGED <<runs, selected, comparing, found, page>>

ReportHandled(p) ==
    /\ p.st = "sent"
    /\ \/ reports' = (reports \ {p}) \cup {[p EXCEPT !.st = "ok"]} /\ UNCHANGED historyEvents
       \/ Happens /\ reports' = (reports \ {p}) \cup {[p EXCEPT !.st = "lost"]}
    /\ UNCHANGED <<runs, selected, comparing, found, page, tabs>>

\* Mutant of TabEnds: a report that did not come leaves its tab.
TabEndsShown(p) == IF p.st = "ok" THEN "report" ELSE "blank"

\* The tab shows the report, or is closed when there is none.
TabEnds(p) == IF p.st = "ok" THEN "report" ELSE "closed"

ReportAnswered(p) ==
    /\ p.st \in {"ok", "lost"} /\ reports' = reports \ {p}
    /\ tabs' = [tabs EXCEPT ![p.run] = IF p.how = "view" THEN TabEnds(p) ELSE @]
    /\ UNCHANGED <<runs, selected, comparing, found, page, historyEvents>>

Next ==
    \/ Loaded \/ Search \/ TurnPage \/ Toggle \/ Compare
    \/ \E r \in Runs, how \in {"view", "download"} : Report(r, how)
    \/ \E p \in reports : ReportHandled(p) \/ ReportAnswered(p)

-----------------------------------------------------------------------------
(* Properties. *)

\* What is compared is what is ticked, two runs, whichever order they were
\* ticked in and unticked, and wherever the search has left them
\* (TesterHistoryPage.tsx:105-106, 146-150).
ComparesTicked == comparing => ShowCompare /\ Compared = Ticked

\* A blank tab has its report under way (TesterHistoryPage.tsx:110-128).
BlankTabsWait ==
    \A r \in Runs : tabs[r] = "blank" => \E p \in reports : p.run = r /\ p.how = "view"

=============================================================================
