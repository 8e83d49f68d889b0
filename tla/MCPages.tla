------------------------------- MODULE MCPages -------------------------------
(***************************************************************************)
(* The pages of the web frontend for TLC, one open at a time: each has its *)
(* module, and makes its state anew when it is opened, so that they take   *)
(* turns with the same variables s1 .. s19.  Which page is open is chosen   *)
(* at the start.                                                           *)
(***************************************************************************)
EXTENDS Integers, FiniteSets, Sequences, TLC

CONSTANTS
    Items,          \* profiles, runs, images and subscribers, as numbers
    Finds,          \* what a search of theirs may match
    PageRows,       \* rows per page
    Limit,          \* runLimited's workers
    Testers, BuiltIn, DefaultTester,
    Names, Ids,     \* of the saved plans
    Ifaces, IfacesOf, Planes,       \* of the testers' hosts
    LastCpu, Allowed, Nodes, Typed, \* their CPUs, and what is typed in for them
    Slices, Dnns, Filters, Fields, LastImsi, AddCounts,    \* of the subscriber form
    Ues,            \* of the logs, the drawing and the figures
    Retries, Causes,        \* of the figures
    ChartPoints, Times, Peaks, Widths,      \* of the charts
    LastTick, MaxMessages,  \* of the messages
    ImageEvents, SubsEvents, FormEvents, SetupEvents, FleetEvents, ProfilesEvents,  \* bounds
    HistoryEvents, HostEvents, LogEvents,
    None

ASSUME PagesOK ==
    /\ IsFiniteSet(Items) /\ Items # {} /\ Items \subseteq Nat \ {0}
    /\ Items \in Finds /\ \A F \in Finds : F \subseteq Items
    /\ PageRows \in Nat \ {0} /\ Limit \in Nat \ {0} /\ BuiltIn \subseteq Testers
    /\ DefaultTester \in BuiltIn /\ Names # {} /\ Names \subseteq Nat \ {0}
    /\ IfacesOf \in [Testers -> SUBSET Ifaces] /\ {"loading", "unlisted"} \cap Testers = {}
    /\ LastCpu \in Nat /\ Typed \subseteq Seq(Nat \X Nat)
    /\ LastImsi \in Nat \ {0} /\ 1 \in AddCounts /\ AddCounts \subseteq Nat \ {0}
    /\ IsFiniteSet(Ues) /\ Ues # {} /\ IsFiniteSet(Causes)
    /\ LastTick \in Nat /\ MaxMessages \in Nat
    /\ {ImageEvents, SubsEvents, FormEvents, SetupEvents, FleetEvents, ProfilesEvents,
        HistoryEvents, HostEvents, LogEvents} \subseteq Nat

\* None is nothing else.
ASSUME NoneOK ==
    /\ None \notin Ues \cup {"cp", "dp", "core"} /\ \A S \in SUBSET (0 .. LastCpu) : None # S

\* A curve has an even number of points, a run is over before one covers 2 ^ 20 seconds, and
\* the highest rates are in reach of the powers of ten a step is made of.
ASSUME ChartsOK ==
    /\ ChartPoints \in Nat /\ ChartPoints >= 4 /\ ChartPoints % 2 = 0
    /\ Times \subseteq 0 .. ChartPoints * 2 ^ 20 - 1
    /\ Peaks \subseteq 1 .. 4 * 10 ^ 8 - 1 /\ Widths \subseteq Nat \ {0}

VARIABLES
    view,           \* the open page
    s1, s2, s3, s4, s5, s6, s7, s8, s9, s10, s11, s12, s13, s14, s15, s16, s17, s18, s19

vars == <<view, s1, s2, s3, s4, s5, s6, s7, s8, s9, s10, s11, s12, s13, s14, s15, s16, s17, s18, s19>>

\* The network functions of each template of the core.
NfsOf == [t \in {"basic", "ulcl", "ulcl-2slice"} |->
    {"NRF", "AUSF", "UDM", "UDR", "PCF", "NSSF", "CHF", "AMF", "DB", "WEBCONSOLE"} \cup
        CASE t = "basic" -> {"SMF", "UPF"}
          [] t = "ulcl" -> {"SMF", "I-UPF", "PSA-UPF"}
          [] OTHER -> {"SMF1", "SMF2", "I-UPF-1", "PSA-UPF-1", "I-UPF-2", "PSA-UPF-2"}]

\* A drawn name is as long as it is written: the provers know no length of a string.
ASSUME LettersOK ==
    /\ \A t \in DOMAIN NfsOf : \A nf \in NfsOf[t] : Len(nf) \in Nat
    /\ Len("I-UPF-1") = 7 /\ Len("I-UPF-2") = 7 /\ Len("PSA-UPF-1") = 9

\* The gNB slices of the UEs' first sessions.
SliceOfUe == "u1" :> "slice1" @@ "u2" :> "slice2"

\* Of the cfg: each tester's interfaces; two NUMA nodes; and, to be typed in, nothing, a range,
\* two ranges out of order, a range backwards, a CPU the host has and fru-tester may not use.
IfacesOfTester == "d" :> {"lo", "eth0"} @@ "t1" :> {"lo", "ens1"}
TwoNodes == <<{0, 1}, {2, 3}>>
TypedLists == {<<>>, <<<<0, 1>>>>, <<<<2, 2>>, <<0, 1>>>>, <<<<1, 0>>>>, <<<<3, 3>>>>}

L == INSTANCE Logs WITH
    core <- s1, subs <- s2, deployed <- s3, link <- s4,
    template <- s5, subsRead <- s6, instRead <- s7, selected <- s8, nf <- s9, fetches <- s10,
    lines <- s11, loading <- s12, logEvents <- s13

I == INSTANCE Images WITH
    Imgs <- Items, onHost <- s1, images <- s2, pending <- s3, jobs <- s4,
    confirm <- s5, imageEvents <- s6

U == INSTANCE Subscribers WITH
    Subs <- Items, Searches <- Finds,
    size <- s1, next <- s2, at <- s3, done <- s4, failed <- s5, finished <- s6, remote <- s7,
    list <- s8, reads <- s9, table <- s10, search <- s11, page <- s12, selected <- s13,
    modal <- s14, deletes <- s15, deletingUe <- s16, bulking <- s17, targets <- s18,
    subsEvents <- s19

F == INSTANCE SubscriberForm WITH
    Counts <- AddCounts, size <- s1, next <- s2, at <- s3, done <- s4,
    failed <- s5, finished <- s6, stored <- s7, source <- s8, mode <- s9, count <- s10,
    first <- s11, sessions <- s12, saving <- s13, failures <- s14, open <- s15, formEvents <- s16

\* A new row can be made, two of them with different DNNs; a form without rows is told from one with them.
ASSUME RowsAreOK ==
    /\ Slices # {} /\ (\E d, e \in Dnns : d # e) /\ 1 \in Filters \cap Fields
    /\ None \notin Seq(F!SessionRows)

M == INSTANCE Notifications WITH
    now <- s1, notifications <- s2

T == INSTANCE Topology WITH
    Services <- NfsOf, Watched <- {"AMF"}, Clicked <- {"AMF", "SMF", "DB"}, SliceOf <- SliceOfUe,
    Sizes <- {1, 2}, TopoEvents <- 1, nfs <- s1, gnbs <- s2, rows <- s3, template <- s4,
    selection <- s5, terminal <- s6, link <- s7, size <- s8, told <- s9, topoEvents <- s10

S == INSTANCE SetupPage WITH
    saved <- s1, list <- s2, form <- s3, savedForm <- s4, curId <- s5,
    remembered <- s6, busy <- s7, modal <- s8, op <- s9, timer <- s10, checks <- s11,
    validation <- s12, testers <- s13, left <- s14, setupEvents <- s15

\* A page without its list is told from one with it.
ASSUME NoListOK == \A p \in S!Profiles : None # p

H == INSTANCE HostChecks WITH
    testerList <- s1, chosen <- s2,
    iface <- s3, menu <- s4, listings <- s5, pinging <- s6, verdict <- s7, hostEvents <- s8

W == INSTANCE TesterFleet WITH
    registered <- s1, alive <- s2,
    rows <- s3, loads <- s4, entry <- s5, reached <- s6, statusReqs <- s7, systemReqs <- s8,
    adding <- s9, isAdding <- s10, removing <- s11, fleetEvents <- s12

P == INSTANCE Profiles WITH
    Ids <- Items, Found <- Finds, store <- s1,
    profiles <- s2, selected <- s3, found <- s4, page <- s5, toDelete <- s6, isDeleting <- s7,
    deletes <- s8, told <- s9, lists <- s10, profilesEvents <- s11

R == INSTANCE History WITH
    Runs <- Items, Matches <- Finds, runs <- s1,
    selected <- s2, comparing <- s3, found <- s4, page <- s5, reports <- s6, tabs <- s7,
    historyEvents <- s8

C == INSTANCE Cpus WITH
    form <- s1, saved <- s2, runActive <- s3

G == INSTANCE Figures WITH
    at <- s1, attempts <- s2, state <- s3,
    failures <- s4, card <- s5, snap <- s6, shown <- s7

K == INSTANCE Charts WITH
    MaxPoints <- ChartPoints, sec <- s1, peak <- s2, plotW <- s3, hover <- s4

\* The variables after the k-th are not the page's.
Blank(k) ==
    /\ IF k < 3 THEN s3 = 0 ELSE TRUE
    /\ IF k < 4 THEN s4 = 0 ELSE TRUE
    /\ IF k < 5 THEN s5 = 0 ELSE TRUE
    /\ IF k < 6 THEN s6 = 0 ELSE TRUE
    /\ IF k < 7 THEN s7 = 0 ELSE TRUE
    /\ IF k < 8 THEN s8 = 0 ELSE TRUE
    /\ IF k < 9 THEN s9 = 0 ELSE TRUE
    /\ IF k < 10 THEN s10 = 0 ELSE TRUE
    /\ IF k < 11 THEN s11 = 0 ELSE TRUE
    /\ IF k < 12 THEN s12 = 0 ELSE TRUE
    /\ IF k < 13 THEN s13 = 0 ELSE TRUE
    /\ IF k < 14 THEN s14 = 0 ELSE TRUE
    /\ IF k < 15 THEN s15 = 0 ELSE TRUE
    /\ IF k < 16 THEN s16 = 0 ELSE TRUE
    /\ IF k < 17 THEN s17 = 0 ELSE TRUE
    /\ IF k < 18 THEN s18 = 0 ELSE TRUE
    /\ IF k < 19 THEN s19 = 0 ELSE TRUE

Init ==
    \/ view = "logs" /\ L!Init /\ Blank(13)
    \/ view = "images" /\ I!Init /\ Blank(6)
    \/ view = "subscribers" /\ U!Init /\ Blank(19)
    \/ view = "subscriber" /\ F!Init /\ Blank(16)
    \/ view = "messages" /\ M!Init /\ Blank(2)
    \/ view = "topology" /\ T!Init /\ Blank(10)
    \/ view = "setup" /\ S!Init /\ Blank(15)
    \/ view = "checks" /\ H!Init /\ Blank(8)
    \/ view = "fleet" /\ W!Init /\ Blank(12)
    \/ view = "profiles" /\ P!Init /\ Blank(11)
    \/ view = "history" /\ R!Init /\ Blank(8)
    \/ view = "cpus" /\ C!Init /\ Blank(3)
    \/ view = "figures" /\ G!Init /\ Blank(7)
    \/ view = "charts" /\ K!Init /\ Blank(4)

Next ==
    \/ view = "logs" /\ L!Next /\ UNCHANGED <<view, s14, s15, s16, s17, s18, s19>>
    \/ view = "images" /\ I!Next
       /\ UNCHANGED <<view, s7, s8, s9, s10, s11, s12, s13, s14, s15, s16, s17, s18, s19>>
    \/ view = "subscribers" /\ U!Next /\ view' = view
    \/ view = "subscriber" /\ F!Next /\ UNCHANGED <<view, s17, s18, s19>>
    \/ view = "messages" /\ M!Next
       /\ UNCHANGED <<view, s3, s4, s5, s6, s7, s8, s9, s10, s11, s12, s13, s14, s15, s16, s17, s18, s19>>
    \/ view = "topology" /\ T!Next /\ UNCHANGED <<view, s11, s12, s13, s14, s15, s16, s17, s18, s19>>
    \/ view = "setup" /\ S!Next /\ UNCHANGED <<view, s16, s17, s18, s19>>
    \/ view = "checks" /\ H!Next /\ UNCHANGED <<view, s9, s10, s11, s12, s13, s14, s15, s16, s17, s18, s19>>
    \/ view = "fleet" /\ W!Next /\ UNCHANGED <<view, s13, s14, s15, s16, s17, s18, s19>>
    \/ view = "profiles" /\ P!Next /\ UNCHANGED <<view, s12, s13, s14, s15, s16, s17, s18, s19>>
    \/ view = "history" /\ R!Next /\ UNCHANGED <<view, s9, s10, s11, s12, s13, s14, s15, s16, s17, s18, s19>>
    \/ view = "cpus" /\ C!Next
       /\ UNCHANGED <<view, s4, s5, s6, s7, s8, s9, s10, s11, s12, s13, s14, s15, s16, s17, s18, s19>>
    \/ view = "figures" /\ G!Next
       /\ UNCHANGED <<view, s8, s9, s10, s11, s12, s13, s14, s15, s16, s17, s18, s19>>
    \/ view = "charts" /\ K!Next
       /\ UNCHANGED <<view, s5, s6, s7, s8, s9, s10, s11, s12, s13, s14, s15, s16, s17, s18, s19>>

Spec == Init /\ [][Next]_vars

-----------------------------------------------------------------------------
On(page, property) == view = page => property

\* Each item of a bulk action is run once, however many run at a time, what is being
\* deleted is listed, and an image is in one action at a time, alone or among all of them
\* (runLimited in bulk.ts, SubscribersPage.tsx, ImagesPage.tsx).
ItemsOnce ==
    /\ On("subscribers", U!SubsTypeOK /\ U!EachItemOnce)
    /\ On("subscriber", F!EachItemOnce)
    /\ On("images", I!ImagesTypeOK /\ I!OneActionPerImage)

\* What is ticked is in the list as it was last read and what is being deleted is shown,
\* runs compared are the ones ticked, and a tester said to be reached is one that is up,
\* while lists, deletions and statuses answer in any order (TesterProfilesPage.tsx,
\* TesterHistoryPage.tsx, TesterStatusPage.tsx).
TicksAreListed ==
    /\ On("profiles", P!ProfilesTypeOK /\ P!DeletesAreShown /\ P!TickedAreListed)
    /\ On("history", R!HistoryTypeOK /\ R!ComparesTicked /\ R!BlankTabsWait)
    /\ On("fleet", W!FleetTypeOK /\ W!ReachedIsUp)

\* What a form holds and shows is of the form as it stands: the verdict beside it, the
\* profile said to be open, the menu of the chosen tester's interfaces, with edits, checks,
\* saves and deletions under way; and what is saved comes back as it was and can be used, a
\* subscriber's sessions and flows, a CPU list whose two sides share no CPU
\* (TesterSetupPage.tsx, subscriberForm.ts, cpus.ts).
FormsHold ==
    /\ On("setup", S!SetupTypeOK /\ S!ValidationIsOfForm /\ S!OpenIsListed)
    /\ On("checks", H!HostTypeOK /\ H!MenuComes)
    /\ On("subscriber", F!FormTypeOK /\ F!ReopensAsSaved)
    /\ On("cpus", C!CpusTypeOK /\ C!SavedIsUsable)

\* What is drawn fits: no two boxes of the topology meet, its notes agree with its nodes, a
\* terminal's shell has its size, a chart's axes cover its data, the figures of a run add up
\* though its counts are read at different moments, and a message ends.  The boxes depend
\* on the core alone, so they are looked at where no UE is listed (s3, Topology's rows)
\* (TopologySchematic.tsx, DashboardPage.tsx, UeTerminalModal.tsx,
\* TesterRunPage.tsx, useNotifications.ts).
DrawnRight ==
    /\ On("topology", T!TopoTypeOK /\ T!NotesAgree /\ T!TerminalSized)
    /\ On("topology", s3 = <<>> => T!DrawnApart)
    /\ On("charts", K!AxesFit /\ K!StepIsWidth)
    /\ On("figures", G!FiguresFit)
    /\ On("messages", M!NoneLingers)
    /\ On("logs", L!LogsTypeOK)

\* No step loses what is stored: a subscriber nobody deleted, one a bulk creation says it
\* made, a form shown as the one a run starts with (SubscribersPage.tsx,
\* SubscriberFormPage.tsx, TesterSetupPage.tsx).
NothingLost ==
    [][/\ On("subscribers", U!NobodyLost)
       /\ On("subscriber", F!BulkCreatesAll)
       /\ On("setup", S!RunsWhatIsSaved)]_vars

\* No step undoes what the user set: a CPU no click touched, the subscriber a link named,
\* an error that was not dismissed (cpus.ts, LogsPage.tsx, useNotifications.ts).
NothingUndone ==
    [][/\ On("cpus", C!ClickMovesOne)
       /\ On("logs", L!UeLinkKept)
       /\ On("messages", M!ErrorsStay)]_vars
=============================================================================
