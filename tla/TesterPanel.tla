----------------------------- MODULE TesterPanel -----------------------------
(***************************************************************************)
(* A tester's page (TesterDetailPage and TesterPanel in                    *)
(* TesterStatusPage.tsx): it polls the tester's status and run, reads its  *)
(* CPU layout each time the tester is reached anew, and edits the CPU      *)
(* allocation.  Answers come back in any order.  The two lists of CPUs are *)
(* one here; module Cpus has what is in them.                              *)
(***************************************************************************)
EXTENDS Naturals

CONSTANTS
    Lists,          \* what may be typed for the allocation
    CpuLists,       \* those that can be read as CPUs
    Unpinned,       \* the empty allocation
    PanelEvents,    \* bound: what the tester, the user and other pages do
    None

VARIABLES
    known,          \* whether fru-lab has the tester: "asking", "yes", "no"
    up, active, cpus,               \* the tester answers, has a run; its allocation
    reach, wasDown, running,        \* status and unreachable; the run shown goes on
    layout,         \* info is there
    alloc, allocSaved, refused,     \* form, saved; fieldErrors is not empty
    put,            \* isSaving: the request under way
    statusReqs, runReqs, systemReqs,    \* reads under way, or how they were answered
    panelEvents

panelVars == <<known, up, active, cpus, reach, wasDown, running, layout, alloc, allocSaved, refused, put,
               statusReqs, runReqs, systemReqs, panelEvents>>
hostVars == <<up, active, cpus>>
formVars == <<layout, alloc, allocSaved, refused, put>>
readVars == <<reach, wasDown, running>>
reqVars  == <<statusReqs, runReqs, systemReqs>>

PanelTypeOK ==
    /\ known \in {"asking", "yes", "no"} /\ up \in BOOLEAN /\ active \in BOOLEAN /\ cpus \in CpuLists
    /\ reach \in {"asking", "up", "down"} /\ wasDown \in BOOLEAN /\ running \in BOOLEAN
    /\ layout \in BOOLEAN /\ alloc \in Lists /\ allocSaved \in CpuLists /\ refused \in BOOLEAN
    /\ put = None \/ (put.alloc \in CpuLists /\ put.st \in {"sent", "saved", "invalid", "failed"})
    /\ statusReqs \subseteq {"sent", "ok", "lost"} /\ runReqs \subseteq {"sent", "active", "over"}
    /\ systemReqs \subseteq {"sent", "lost"} \cup CpuLists

Init ==
    /\ known = "asking"
    /\ up \in BOOLEAN /\ active \in BOOLEAN /\ cpus \in CpuLists
    /\ reach = "asking" /\ wasDown = TRUE /\ running = FALSE /\ layout = FALSE
    /\ alloc = Unpinned /\ allocSaved = Unpinned /\ refused = FALSE
    /\ put = None /\ statusReqs = {} /\ runReqs = {} /\ systemReqs = {}
    /\ panelEvents = 0

Happens == panelEvents < PanelEvents /\ panelEvents' = panelEvents + 1

-----------------------------------------------------------------------------
(* The tester. *)

RunChanges == Happens /\ up /\ active' = ~active /\ UNCHANGED <<known, up, cpus, readVars, formVars, reqVars>>
Fails      == Happens /\ up /\ up' = FALSE /\ UNCHANGED <<known, active, cpus, readVars, formVars, reqVars>>

\* It answers again: the network is back, or the process with no run.
Restarts == /\ Happens /\ ~up /\ up' = TRUE /\ active' \in {active, FALSE}
            /\ UNCHANGED <<known, cpus, readVars, formVars, reqVars>>

SavedElsewhere == /\ Happens /\ up /\ ~active /\ cpus' \in CpuLists
                  /\ UNCHANGED <<known, up, active, readVars, formVars, reqVars>>

StatusHandled == /\ "sent" \in statusReqs
                 /\ statusReqs' = (statusReqs \ {"sent"}) \cup {IF up THEN "ok" ELSE "lost"}
                 /\ UNCHANGED <<known, hostVars, readVars, formVars, runReqs, systemReqs, panelEvents>>

\* A run that cannot be read is not told of.
RunHandled == /\ "sent" \in runReqs
              /\ runReqs' = (runReqs \ {"sent"}) \cup
                    (IF ~up THEN {} ELSE IF active THEN {"active"} ELSE {"over"})
              /\ UNCHANGED <<known, hostVars, readVars, formVars, statusReqs, systemReqs, panelEvents>>

SystemHandled == /\ "sent" \in systemReqs
                 /\ systemReqs' = (systemReqs \ {"sent"}) \cup {IF up THEN cpus ELSE "lost"}
                 /\ UNCHANGED <<known, hostVars, readVars, formVars, statusReqs, runReqs, panelEvents>>

\* A run, or a CPU that cannot be used, refuses the allocation.
SaveHandled ==
    /\ put # None /\ put.st = "sent"
    /\ \/ ~up /\ put' = [put EXCEPT !.st = "failed"] /\ UNCHANGED cpus
       \/ up /\ active /\ put' = [put EXCEPT !.st = "failed"] /\ UNCHANGED cpus
       \/ up /\ ~active /\ put' = [put EXCEPT !.st = "invalid"] /\ UNCHANGED cpus
       \/ up /\ ~active /\ put' = [put EXCEPT !.st = "saved"] /\ cpus' = put.alloc
    /\ UNCHANGED <<known, up, active, readVars, layout, alloc, allocSaved, refused, reqVars, panelEvents>>

-----------------------------------------------------------------------------
(* The page. *)

\* The tester is listed, or not; without a list the panel says what is wrong.
KnownRead == /\ known = "asking" /\ known' \in {"yes", "no"}
             /\ UNCHANGED <<hostVars, readVars, formVars, reqVars, panelEvents>>

\* Mutant of Poll: a tester that does not answer is not asked again.
PollWhileUp ==
    /\ known = "yes" /\ reach # "down"
    /\ statusReqs' = statusReqs \cup {"sent"} /\ runReqs' = runReqs \cup {"sent"}
    /\ UNCHANGED <<known, hostVars, readVars, formVars, systemReqs, panelEvents>>

\* readStatus, at once and by its timer.
Poll ==
    /\ known = "yes"
    /\ statusReqs' = statusReqs \cup {"sent"} /\ runReqs' = runReqs \cup {"sent"}
    /\ UNCHANGED <<known, hostVars, readVars, formVars, systemReqs, panelEvents>>

StatusRead ==
    /\ "ok" \in statusReqs /\ statusReqs' = statusReqs \ {"ok"}
    /\ reach' = "up" /\ wasDown' = FALSE
    /\ systemReqs' = IF wasDown THEN systemReqs \cup {"sent"} ELSE systemReqs
    /\ UNCHANGED <<known, hostVars, running, formVars, runReqs, panelEvents>>

StatusLost ==
    /\ "lost" \in statusReqs /\ statusReqs' = statusReqs \ {"lost"}
    /\ reach' = "down" /\ wasDown' = TRUE
    /\ UNCHANGED <<known, hostVars, running, formVars, runReqs, systemReqs, panelEvents>>

RunRead(a) ==
    /\ a \in runReqs /\ runReqs' = runReqs \ {a} /\ running' = (a = "active")
    /\ UNCHANGED <<known, hostVars, reach, wasDown, formVars, statusReqs, systemReqs, panelEvents>>

\* loadSystem's answer replaces what is in the form.
SystemRead(c) ==
    /\ c \in systemReqs \ {"sent"} /\ systemReqs' = systemReqs \ {c}
    /\ IF c = "lost" THEN UNCHANGED <<layout, alloc, allocSaved>>
                     ELSE layout' = TRUE /\ alloc' = c /\ allocSaved' = c
    /\ UNCHANGED <<known, hostVars, readVars, refused, put, statusReqs, runReqs, panelEvents>>

\* What the top of the page shows.
Overview == [shown |-> reach = "up", running |-> running]

Editable   == layout /\ reach # "down"
AllocDirty == alloc # allocSaved

SetField ==
    /\ Editable /\ ~running /\ Happens
    /\ alloc' \in Lists \ {alloc} /\ refused' = FALSE
    /\ UNCHANGED <<known, hostVars, readVars, layout, allocSaved, put, reqVars>>

Reset == /\ Editable /\ AllocDirty /\ put = None
         /\ alloc' = allocSaved /\ refused' = FALSE
         /\ UNCHANGED <<known, hostVars, readVars, layout, allocSaved, put, reqVars, panelEvents>>

HandleSave ==
    /\ Editable /\ AllocDirty /\ put = None /\ ~running /\ alloc \in CpuLists
    /\ put' = [alloc |-> alloc, st |-> "sent"]
    /\ UNCHANGED <<known, hostVars, readVars, layout, alloc, allocSaved, refused, reqVars, panelEvents>>

SaveAnswered ==
    /\ put # None /\ put.st # "sent" /\ put' = None
    /\ refused' = (put.st = "invalid")
    /\ IF put.st = "saved" THEN alloc' = put.alloc /\ allocSaved' = put.alloc ELSE UNCHANGED <<alloc, allocSaved>>
    /\ UNCHANGED <<known, hostVars, readVars, layout, reqVars, panelEvents>>

Next ==
    \/ RunChanges \/ Fails \/ Restarts \/ SavedElsewhere
    \/ StatusHandled \/ RunHandled \/ SystemHandled \/ SaveHandled
    \/ KnownRead \/ Poll \/ StatusRead \/ StatusLost
    \/ \E a \in {"active", "over"} : RunRead(a)
    \/ \E c \in CpuLists \cup {"lost"} : SystemRead(c)
    \/ SetField \/ Reset \/ HandleSave \/ SaveAnswered

-----------------------------------------------------------------------------
\* A tester that answers is shown as connected, and its run as it is, once the answers of
\* an outage have all come: "This page keeps trying every few seconds"
\* (TesterStatusPage.tsx:313).
Answering == up /\ known = "yes"
ShownAsIs == Overview = [shown |-> TRUE, running |-> active]

=============================================================================
