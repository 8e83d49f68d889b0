------------------------------ MODULE Topology ------------------------------
(***************************************************************************)
(* The dashboard's drawing of the lab, the note beside each count, the     *)
(* aside of the selected node and the terminal of a UE                     *)
(* (DashboardPage.tsx, TopologySchematic.tsx, SelectedNodePanel.tsx,       *)
(* UeTerminalModal.tsx).  What is drawn follows from three polled lists    *)
(* that are read at different times: the core's services, the gNBs and the *)
(* UEs.  Lengths are in half units of the drawing, so that a centre is a   *)
(* whole number.                                                           *)
(***************************************************************************)
EXTENDS Integers, FiniteSetsExt, Functions, Sequences

CONSTANTS
    Services,       \* the network functions of each core template
    Watched,        \* services one of which a poll may find missing or not running
    Clicked,        \* services the user selects
    Ues,
    SliceOf,        \* the slice of each UE's subscriber
    Sizes,          \* the sizes of a terminal that fits its window
    TopoEvents,     \* bound on the user's choices
    None

VARIABLES
    nfs,            \* the core's services as last read, each with its status
    gnbs,           \* the status of each gNB as last read
    rows,           \* the status of each subscriber's UE as last read
    template,       \* selectedTemplate
    selection,      \* the selected node, network function and UE
    terminal,       \* the UE whose terminal is open
    link,           \* its socket
    size, told,     \* the terminal's size, the size its socket was told
    topoEvents

viewVars == <<nfs, gnbs, rows, template>>
termVars == <<terminal, link, size, told>>
topoVars == <<nfs, gnbs, rows, template, selection, terminal, link, size, told, topoEvents>>

Templates == DOMAIN Services
NodeStatus == {"running", "deploying", "unhealthy", "stopped"}
Gnbs == {"gnb", "slice1", "slice2"}
Listed == DOMAIN nfs

TopoTypeOK ==
    /\ \A nf \in Listed : nf \in UNION Range(Services) /\ nfs[nf] \in NodeStatus
    /\ gnbs \in [Gnbs -> NodeStatus]
    /\ DOMAIN rows \subseteq Ues /\ Range(rows) \subseteq NodeStatus
    /\ template \in Templates
    /\ selection.node \in {"core", "gnb", "ue"}
    /\ terminal \in Ues \cup {None}
    /\ link \in {"none", "connecting", "open", "closed"}
    /\ size \in Sizes \cup {None} /\ told \in Sizes \cup {None}

Select(node, nf, ue) == selection' = [node |-> node, nf |-> nf, ue |-> ue]

Init ==
    /\ nfs = <<>>
    /\ gnbs = [g \in Gnbs |-> "stopped"]
    /\ rows = <<>>
    /\ template = "basic"
    /\ selection = [node |-> "core", nf |-> None, ue |-> None]
    /\ terminal = None
    /\ link = "none"
    /\ size = None
    /\ told = None
    /\ topoEvents = 0

-----------------------------------------------------------------------------
(***************************************************************************)
(* The drawing.                                                            *)
(***************************************************************************)
TopNfs == <<"NRF", "AUSF", "UDM", "UDR", "PCF", "NSSF", "CHF">>
PlaneNfs == {"AMF", "SMF", "SMF1", "SMF2", "UPF", "I-UPF", "PSA-UPF",
             "I-UPF-1", "PSA-UPF-1", "I-UPF-2", "PSA-UPF-2"}

\* The template of a core is read off the services that run; without any it is the one
\* to deploy next.
CoreTemplate ==
    IF Listed = {} THEN template
    ELSE IF Listed \cap {"I-UPF-1", "I-UPF-2", "PSA-UPF-1", "PSA-UPF-2"} # {} THEN "ulcl-2slice"
    ELSE IF Listed \cap {"I-UPF", "PSA-UPF"} # {} THEN "ulcl"
    ELSE "basic"
TwoSlice == CoreTemplate = "ulcl-2slice"

BoxAt(x, y, w, h) == [x |-> 2 * x, y |-> 2 * y, w |-> 2 * w, h |-> 2 * h]
Nf(x, y, w) == BoxAt(x, y, w, 26)
MidX(b) == b.x + b.w \div 2
MidY(b) == b.y + b.h \div 2
Right(b) == b.x + b.w
Bottom(b) == b.y + b.h

UeBox == BoxAt(20, 150, 140, 84)
CoreX == 2 * 450
CoreY == 2 * 20
X0 == 466

\* 24 units and 6.3 a letter, rounded up.
NfWidth(name, least) == Max({least, (249 + 63 * Len(name)) \div 10})

\* Services the drawing has no place for, in some order.
Others ==
    LET S == Listed \ (PlaneNfs \cup Range(TopNfs))
    IN  CHOOSE f \in [1 .. Cardinality(S) -> S] : IsInjective(f)

\* The control plane along the bus, and any service the drawing has no place for after it.
TopRow == TopNfs \o Others
TopSteps == [i \in DOMAIN TopRow |-> NfWidth(TopRow[i], 48) + 8]
TopX(i) == FoldFunctionOnSet(+, X0, TopSteps, 1 .. i - 1)
TopBoxes == [i \in DOMAIN TopRow |-> Nf(TopX(i), 56, NfWidth(TopRow[i], 48))]

\* A user-plane function hangs centred below its session manager.
Below(smf, name, y) ==
    LET w == NfWidth(name, 60)
    IN  [x |-> MidX(smf) - w, y |-> 2 * y, w |-> 2 * w, h |-> 52]

Smf1 == Nf(590, 130, 60)
Smf2 == Nf(700, 130, 60)
PlaneRow ==
    {"AMF"} \cup CASE CoreTemplate = "basic" -> {"SMF", "UPF"}
                   [] CoreTemplate = "ulcl" -> {"SMF", "I-UPF", "PSA-UPF"}
                   [] OTHER -> {"SMF1", "I-UPF-1", "PSA-UPF-1", "SMF2", "I-UPF-2", "PSA-UPF-2"}
Plane == [nf \in PlaneRow |->
    CASE nf = "AMF" -> Nf(X0, 130, 60)
      [] nf \in {"SMF", "SMF1"} -> Smf1
      [] nf = "SMF2" -> Smf2
      [] nf \in {"UPF", "I-UPF"} -> Nf(590, 210, 60)
      [] nf = "PSA-UPF" -> Nf(710, 210, 72)
      [] nf = "I-UPF-1" -> Below(Smf1, nf, 196)
      [] nf = "I-UPF-2" -> Below(Smf2, nf, 250)
      [] nf = "PSA-UPF-1" -> Nf(760, 196, NfWidth(nf, 60))
      [] OTHER -> Nf(850, 250, NfWidth("PSA-UPF-1", 60))]

\* Each lane of the user plane, from the gNB to the data network: its first and last
\* function.
Lanes ==
    CASE CoreTemplate = "basic" -> {<<"UPF", "UPF">>}
      [] CoreTemplate = "ulcl" -> {<<"I-UPF", "PSA-UPF">>}
      [] OTHER -> {<<"I-UPF-1", "PSA-UPF-1">>, <<"I-UPF-2", "PSA-UPF-2">>}
FirstUpfs == {Plane[lane[1]] : lane \in Lanes}

\* Mutant of CoreRight: the frame does not grow with the bus.
CoreRightFixed == IF TwoSlice THEN Right(Plane["PSA-UPF-2"]) + 32 ELSE 2 * 870

CoreRight ==
    Max({IF TwoSlice THEN Right(Plane["PSA-UPF-2"]) + 32 ELSE 2 * 870, Right(TopBoxes[Len(TopBoxes)]) + 40})
CoreBox ==
    [x |-> CoreX, y |-> CoreY, w |-> CoreRight - CoreX,
     h |-> 2 * (IF TwoSlice THEN 290 ELSE 260) - CoreY]
Dn ==
    LET top == Min({b.y : b \in FirstUpfs})
    IN  [x |-> CoreRight + 50, y |-> top, w |-> 100, h |-> Max({Bottom(b) : b \in FirstUpfs}) - top]
GnbBox ==
    BoxAt(240, 128, 140, IF TwoSlice THEN Max({Bottom(b) : b \in FirstUpfs}) \div 2 - 128 ELSE 108)
ViewBox == [x |-> 0, y |-> 0, w |-> Right(Dn) + 30, h |-> Bottom(CoreBox) + 32]

Drawn == Range(TopRow) \cup DOMAIN Plane
NfBoxes == Range(TopBoxes) \cup Range(Plane)

-----------------------------------------------------------------------------
(***************************************************************************)
(* The counts, the notes and the aside.                                    *)
(***************************************************************************)
With(list, status) == {k \in DOMAIN list : list[k] = status}
CountOf(list, status) == Cardinality(With(list, status))

Aggregate(list) ==
    IF With(list, "unhealthy") # {} THEN "unhealthy"
    ELSE IF With(list, "deploying") # {} THEN "deploying"
    ELSE IF With(list, "running") # {} THEN "running"
    ELSE "stopped"

CoreStatus == Aggregate(nfs)

UeNode == Aggregate(rows)
GnbNode == IF TwoSlice THEN Aggregate([g \in {"slice1", "slice2"} |-> gnbs[g]]) ELSE gnbs["gnb"]

UeNote ==
    IF DOMAIN rows = {} THEN "no subscribers"
    ELSE IF CountOf(rows, "unhealthy") > 0 THEN "unhealthy"
    ELSE IF CountOf(rows, "deploying") > 0 THEN "starting"
    ELSE IF CountOf(rows, "running") = Cardinality(DOMAIN rows) THEN "all up"
    ELSE "some"
NfNote ==
    IF Listed = {} THEN "not deployed"
    ELSE IF CountOf(nfs, "running") < Cardinality(Listed) THEN "not running"
    ELSE "all healthy"

\* The UEs counted at each slice of the gNB.
UpRows == DOMAIN rows \ With(rows, "stopped")
SliceUes(slice) == IF TwoSlice THEN {u \in UpRows : SliceOf[u] = slice} ELSE {}

AsideNf == IF selection.node = "core" /\ selection.nf \in Listed THEN selection.nf ELSE None
AsideUe == IF selection.node = "ue" /\ selection.ue \in DOMAIN rows THEN selection.ue ELSE None
AsideStatus ==
    CASE selection.node = "core" -> IF AsideNf # None THEN nfs[AsideNf] ELSE CoreStatus
      [] selection.node = "gnb" -> GnbNode
      [] OTHER -> IF AsideUe # None THEN rows[AsideUe] ELSE UeNode
AsideServices == IF selection.node = "core" THEN Listed ELSE {}

-----------------------------------------------------------------------------
Happens == topoEvents < TopoEvents /\ topoEvents' = topoEvents + 1

\* The polls answer one at a time with what the hosts run then.
PollCore ==
    /\ \/ nfs' = <<>>
       \/ \E t \in Templates, gone \in Watched : nfs' = [nf \in Services[t] \ {gone} |-> "running"]
       \/ \E t \in Templates, odd \in Watched, status \in NodeStatus :
             nfs' = [nf \in Services[t] |-> IF nf = odd THEN status ELSE "running"]
    /\ UNCHANGED <<gnbs, rows, template, selection, termVars, topoEvents>>

PollGnbs ==
    /\ gnbs' \in [Gnbs -> {"running", "stopped"}]
    /\ UNCHANGED <<nfs, rows, template, selection, termVars, topoEvents>>

PollUes ==
    /\ \E listed \in SUBSET Ues : rows' \in [listed -> NodeStatus]
    /\ UNCHANGED <<nfs, gnbs, template, selection, termVars, topoEvents>>

\* The picker of the next template is there while the core is stopped.
PickTemplate ==
    /\ CoreStatus = "stopped"
    /\ Happens
    /\ template' \in Templates
    /\ UNCHANGED <<nfs, gnbs, rows, selection, termVars>>

\* A click on the drawing; a function that is drawn and not listed selects the core.
SelectBox ==
    /\ Happens
    /\ \/ \E node \in {"core", "gnb", "ue"} : Select(node, None, None)
       \/ \E nf \in Drawn \cap Clicked : Select("core", IF nf \in Listed THEN nf ELSE None, None)
    /\ UNCHANGED <<viewVars, termVars>>

\* A row of the aside's services, a row of the table of UEs.
SelectService(nf) ==
    /\ nf \in AsideServices
    /\ Happens
    /\ Select("core", nf, None)
    /\ UNCHANGED <<viewVars, termVars>>
SelectUe(u) ==
    /\ u \in DOMAIN rows
    /\ Happens
    /\ Select("ue", None, u)
    /\ UNCHANGED <<viewVars, termVars>>

\* The terminal fits itself to the window and opens its socket.
OpenTerminal(u) ==
    /\ terminal = None
    /\ u \in With(rows, "running")
    /\ Happens
    /\ terminal' = u
    /\ link' = "connecting"
    /\ size' \in Sizes
    /\ told' = None
    /\ UNCHANGED <<viewVars, selection>>

\* The size goes out once the socket can carry it.
SocketOpens ==
    /\ link = "connecting"
    /\ link' = "open"
    /\ told' = size
    /\ UNCHANGED <<viewVars, selection, terminal, size, topoEvents>>

SocketEnds ==
    /\ link \in {"connecting", "open"}
    /\ link' = "closed"
    /\ UNCHANGED <<viewVars, selection, terminal, size, told, topoEvents>>

WindowResized ==
    /\ terminal # None
    /\ size' \in Sizes \ {size}
    /\ told' = IF link = "open" THEN size' ELSE told
    /\ UNCHANGED <<viewVars, selection, terminal, link, topoEvents>>

CloseTerminal ==
    /\ terminal # None
    /\ terminal' = None
    /\ link' = "none"
    /\ size' = None
    /\ told' = None
    /\ UNCHANGED <<viewVars, selection, topoEvents>>

Next ==
    \/ PollCore \/ PollGnbs \/ PollUes
    \/ PickTemplate \/ SelectBox
    \/ \E nf \in Clicked : SelectService(nf)
    \/ \E u \in Ues : SelectUe(u) \/ OpenTerminal(u)
    \/ SocketOpens \/ SocketEnds \/ WindowResized \/ CloseTerminal

-----------------------------------------------------------------------------
\* Whatever the lists hold, no two boxes of the drawing overlap, the network functions
\* lie in the core's frame and the rest beside it, every function of a core that runs
\* whole is drawn, and each lane meets the gNB and the data network
\* (buildLayout, TopologySchematic.tsx:76).
Apart(a, b) == Right(a) < b.x \/ Right(b) < a.x \/ Bottom(a) < b.y \/ Bottom(b) < a.y
Within(a, b) == b.x <= a.x /\ Right(a) <= Right(b) /\ b.y <= a.y /\ Bottom(a) <= Bottom(b)
DrawnApart ==
    LET boxes == NfBoxes
        plane == Plane
        core == CoreBox
        dn == Dn
        gnb == GnbBox
    IN  /\ Cardinality(boxes) = Cardinality(Drawn)
        /\ \A a, b \in boxes : a = b \/ Apart(a, b)
        /\ \A a \in boxes : Within(a, core)
        /\ \A a \in {UeBox, gnb, dn} : Within(a, ViewBox) /\ Apart(a, core)
        /\ Apart(UeBox, gnb)
        /\ \A t \in Templates : Listed = Services[t] => Listed \subseteq Drawn
        /\ \A lane \in Lanes :
              LET mid == MidY(plane[lane[1]])
              IN  /\ mid = MidY(plane[lane[2]])
                  /\ \A b \in {gnb, dn} : b.y < mid /\ mid < Bottom(b)

\* The notes, the counts and the status of each node are worked out apart and agree: all
\* healthy means a running core, all up a running UE node, a stopped node counts no UE,
\* and the aside shows nothing worse than the drawing (DashboardPage.tsx:21, :261, :333).
NotesAgree ==
    /\ NfNote = "all healthy" => CoreStatus = "running"
    /\ UeNote = "all up" => UeNode = "running"
    /\ UeNote = "unhealthy" => UeNode = "unhealthy"
    /\ UeNote = "starting" => UeNode = "deploying"
    /\ UeNode = "stopped" => \A slice \in {"slice1", "slice2"} : SliceUes(slice) = {}
    /\ AsideStatus = "unhealthy" => "unhealthy" \in {CoreStatus, GnbNode, UeNode}

\* An open terminal's size is the one its shell was told, also after the window changed
\* while the socket was opening (sendResize, UeTerminalModal.tsx:40).
TerminalSized == link = "open" => told = size
=============================================================================
