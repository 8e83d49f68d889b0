-------------------------------- MODULE Cpus --------------------------------
(***************************************************************************)
(* The CPU allocation a tester's page edits (TesterStatusPage.tsx,         *)
(* TesterCpus.tsx, cpus.ts): two lists of CPUs, as text in Linux form or   *)
(* by clicks on a map, and the check fru-tester makes of them when they    *)
(* are saved (cpuset.go).  A list is a sequence of ranges.                 *)
(***************************************************************************)
EXTENDS Ranked

CONSTANTS
    LastCpu,        \* CPUs are numbered up to it
    Allowed,        \* topology.allowed: those fru-tester may use
    Nodes,          \* topology.nodes: the CPUs of each NUMA node
    Typed,          \* what may be typed in
    None

VARIABLES
    form, saved,    \* side -> its list
    runActive       \* a run goes on

cpusVars == <<form, saved, runActive>>

Sides == {"cp", "dp"}
HostCpus == 0 .. LastCpu

\* The CPUs of a list, or None if it is not one.
ParseCpus(list) ==
    IF \E i \in DOMAIN list : list[i][2] < list[i][1] \/ list[i][2] > LastCpu THEN None
    ELSE UNION {list[i][1] .. list[i][2] : i \in DOMAIN list}

\* The run of cpus that begins at a.
Starts(cpus) == {c \in cpus : c - 1 \notin cpus}
RunFrom(a, cpus) == <<a, CHOOSE b \in cpus : a <= b /\ a .. b \subseteq cpus /\ b + 1 \notin cpus>>

\* CPUs as a list of runs, in order.
FormatCpus(cpus) == [k \in 1 .. Cardinality(Starts(cpus)) |-> RunFrom(Nth(Starts(cpus), k), cpus)]

CpusTypeOK ==
    /\ form \in [Sides -> Seq(Nat \X Nat)] /\ saved \in [Sides -> Seq(Nat \X Nat)]
    /\ runActive \in BOOLEAN

Unpinned == [side \in Sides |-> <<>>]
Init == form = Unpinned /\ saved = Unpinned /\ runActive \in BOOLEAN

-----------------------------------------------------------------------------
\* What a side's list holds, nothing if it cannot be read.
On(side) == LET cpus == ParseCpus(form[side]) IN IF cpus = None THEN {} ELSE cpus
Readable == \A side \in Sides : ParseCpus(form[side]) # None
IsDirty  == form # saved

\* The warnings: CPUs in both lists, and a data plane over several nodes.
Overlap == On("cp") \cap On("dp")
Spans   == Cardinality({n \in DOMAIN Nodes : Nodes[n] \cap On("dp") # {}}) > 1

\* The CPU map: the CPUs by node, each on the side it is shown on; those
\* fru-tester may use can be clicked.
Mapped == UNION {Nodes[n] : n \in DOMAIN Nodes}
SideOf(c) == IF c \in On("cp") THEN "cp" ELSE IF c \in On("dp") THEN "dp" ELSE None
Clickable == IF runActive THEN {} ELSE Mapped \cap Allowed

SetField ==
    /\ ~runActive
    /\ \E side \in Sides, list \in Typed : form' = [form EXCEPT ![side] = list]
    /\ UNCHANGED <<saved, runActive>>

\* Mutant of NextSide: a CPU of the data plane goes back to the control plane.
NextSideBack(c) == IF SideOf(c) = "cp" THEN "dp" ELSE "cp"

\* The side a click moves c to.
NextSide(c) == CASE SideOf(c) = "cp" -> "dp" [] SideOf(c) = "dp" -> None [] OTHER -> "cp"

Toggle(c) ==
    /\ c \in Clickable
    /\ form' = [side \in Sides |-> FormatCpus(IF NextSide(c) = side THEN On(side) \cup {c} ELSE On(side) \ {c})]
    /\ UNCHANGED <<saved, runActive>>

\* Allocation.Check.
Usable(allocation) ==
    /\ \A side \in Sides : ParseCpus(allocation[side]) # None /\ ParseCpus(allocation[side]) \subseteq Allowed
    /\ ParseCpus(allocation["cp"]) \cap ParseCpus(allocation["dp"]) = {}

\* Save: the tester answers with the lists in canonical form, or refuses.
HandleSave ==
    /\ IsDirty /\ ~runActive /\ Readable
    /\ IF Usable(form) THEN /\ saved' = [side \in Sides |-> FormatCpus(ParseCpus(form[side]))]
                            /\ form' = saved'
                       ELSE UNCHANGED <<form, saved>>
    /\ UNCHANGED runActive

Reset == IsDirty /\ form' = saved /\ UNCHANGED <<saved, runActive>>

RunChanges == runActive' = ~runActive /\ UNCHANGED <<form, saved>>

Next == SetField \/ HandleSave \/ Reset \/ RunChanges \/ \E c \in HostCpus : Toggle(c)

-----------------------------------------------------------------------------
(* Properties. *)

\* "clicking one moves it: unassigned -> control plane -> data plane ->
\* unassigned" (TesterCpus.tsx:53-54), and moves no other, whatever the lists
\* looked like, if both could be read; the new lists can be read again, and an
\* allocation clicked back to what is saved is not taken for a change, as a
\* list is written in one way (TesterStatusPage.tsx:251, cpus.ts:20-31).
Clicks(c) ==
    /\ SideOf(c)' = (CASE SideOf(c) = "cp" -> "dp" [] SideOf(c) = "dp" -> None [] OTHER -> "cp")
    /\ \A side \in Sides : On(side)' \ {c} = On(side) \ {c} /\ ParseCpus(form'[side]) # None
    /\ (\A side \in Sides : On(side)' = ParseCpus(saved[side])) => ~IsDirty'
ClickMovesOne == \A c \in HostCpus : Toggle(c) /\ Readable => Clicks(c)

\* What is saved can be used: no CPU is on both sides, and none is not fru-tester's
\* (cpuset.go:185-202, TesterStatusPage.tsx:284-298).
SavedIsUsable ==
    \A cpu \in HostCpus :
        LET sides == {side \in Sides : \E i \in DOMAIN saved[side] : cpu \in saved[side][i][1] .. saved[side][i][2]}
        IN  Cardinality(sides) <= 1 /\ (sides # {} => cpu \in Allowed)

=============================================================================
