----------------------------- MODULE TesterFleet -----------------------------
(***************************************************************************)
(* The testers' page (TesterStatusPage in TesterStatusPage.tsx): the list  *)
(* of fru-lab's testers, a poll of each, and adding and removing one.  The *)
(* polls are made anew with every list; answers to the old ones are        *)
(* dropped, while what the rows know stays.                                *)
(***************************************************************************)
EXTENDS Naturals, FiniteSets

CONSTANTS
    Testers, BuiltIn,
    FleetEvents     \* bound: what the testers and the user do

VARIABLES
    registered,     \* fru-lab's testers
    alive,          \* those that answer
    rows,           \* testers: no list yet, or a list
    loads,          \* reads of the list under way
    entry,          \* fleet: what a row knows of its tester
    reached,        \* useFleet's reached
    statusReqs, systemReqs,     \* reads of this list's polls under way
    adding,         \* the form is open
    isAdding,       \* the form's request
    removing,       \* handleRemove's requests
    fleetEvents

fleetVars == <<registered, alive, rows, loads, entry, reached, statusReqs, systemReqs,
               adding, isAdding, removing, fleetEvents>>
hostVars == <<registered, alive>>
pollVars == <<entry, reached, statusReqs, systemReqs>>
editVars == <<adding, isAdding, removing>>

Asked == [st |-> "sent", list |-> {}]
Fresh == [st |-> "connecting", system |-> FALSE]
Rows  == IF rows = {} THEN {} ELSE CHOOSE list \in rows : TRUE

FleetTypeOK ==
    /\ registered \subseteq Testers /\ alive \subseteq Testers
    /\ rows \subseteq SUBSET Testers /\ Cardinality(rows) <= 1
    /\ loads \subseteq [st : {"sent", "ok", "lost"}, list : SUBSET Testers]
    /\ entry \in [Testers -> [st : {"connecting", "up", "down"}, system : BOOLEAN]]
    /\ statusReqs \subseteq Testers \X {"sent", "ok", "lost"} /\ systemReqs \subseteq Rows
    /\ reached \subseteq Testers /\ adding \in BOOLEAN /\ Cardinality(isAdding) <= 1
    /\ isAdding \cup removing \subseteq [t : Testers \ BuiltIn, st : {"sent", "ok", "failed"}]

Init ==
    /\ registered \in {R \in SUBSET Testers : BuiltIn \subseteq R} /\ alive \in SUBSET Testers
    /\ rows = {} /\ loads = {Asked}
    /\ entry = [t \in Testers |-> Fresh] /\ reached = {}
    /\ statusReqs = {} /\ systemReqs = {}
    /\ adding = FALSE /\ isAdding = {} /\ removing = {}
    /\ fleetEvents = 0

Happens == fleetEvents < FleetEvents /\ fleetEvents' = fleetEvents + 1

\* fru-lab and the testers.

AliveChanges == /\ Happens /\ \E t \in Testers : alive' = IF t \in alive THEN alive \ {t} ELSE alive \cup {t}
                /\ UNCHANGED <<registered, rows, loads, pollVars, editVars>>

ListHandled ==
    /\ Asked \in loads
    /\ loads' \in {(loads \ {Asked}) \cup {l} : l \in {[st |-> "ok", list |-> registered], [st |-> "lost", list |-> {}]}}
    /\ UNCHANGED <<hostVars, rows, pollVars, editVars, fleetEvents>>

StatusHandled(t) ==
    /\ <<t, "sent">> \in statusReqs
    /\ statusReqs' = (statusReqs \ {<<t, "sent">>}) \cup {<<t, IF t \in alive \cap registered THEN "ok" ELSE "lost">>}
    /\ UNCHANGED <<hostVars, rows, loads, entry, reached, systemReqs, editVars, fleetEvents>>

\* A tester is added only if it answers and is not there yet.
AddHandled(a) ==
    /\ a \in isAdding /\ a.st = "sent"
    /\ IF a.t \in alive \ registered
       THEN registered' = registered \cup {a.t} /\ isAdding' = {[a EXCEPT !.st = "ok"]}
       ELSE isAdding' = {[a EXCEPT !.st = "failed"]} /\ UNCHANGED registered
    /\ UNCHANGED <<alive, rows, loads, pollVars, adding, removing, fleetEvents>>

\* One that is gone already cannot be removed.
RemoveHandled(r) ==
    /\ r \in removing /\ r.st = "sent"
    /\ registered' = registered \ {r.t}
    /\ removing' = (removing \ {r}) \cup {[r EXCEPT !.st = IF r.t \in registered THEN "ok" ELSE "failed"]}
    /\ UNCHANGED <<alive, rows, loads, pollVars, adding, isAdding, fleetEvents>>

-----------------------------------------------------------------------------
(* The page. *)

\* Polls start anew, and ask at once.
ListRead(l) ==
    /\ l \in loads /\ l.st # "sent" /\ loads' = loads \ {l}
    /\ IF l.st = "lost" THEN UNCHANGED <<rows, pollVars>>
       ELSE /\ rows' = {l.list} /\ reached' = {}
            /\ statusReqs' = l.list \X {"sent"} /\ systemReqs' = {}
            /\ UNCHANGED entry
    /\ UNCHANGED <<hostVars, editVars, fleetEvents>>

Poll == /\ statusReqs' = statusReqs \cup (Rows \X {"sent"})
        /\ UNCHANGED <<hostVars, rows, loads, entry, reached, systemReqs, editVars, fleetEvents>>

StatusRead(t) ==
    /\ <<t, "ok">> \in statusReqs /\ statusReqs' = statusReqs \ {<<t, "ok">>}
    /\ entry' = [entry EXCEPT ![t].st = "up"] /\ reached' = reached \cup {t}
    /\ systemReqs' = IF t \in reached THEN systemReqs ELSE systemReqs \cup {t}
    /\ UNCHANGED <<hostVars, rows, loads, editVars, fleetEvents>>

StatusLost(t) ==
    /\ <<t, "lost">> \in statusReqs /\ statusReqs' = statusReqs \ {<<t, "lost">>}
    /\ entry' = [entry EXCEPT ![t].st = "down"] /\ reached' = reached \ {t}
    /\ UNCHANGED <<hostVars, rows, loads, systemReqs, editVars, fleetEvents>>

\* The layout's answer, if there is one; a failed one is not asked for again.
SystemRead(t) ==
    /\ t \in systemReqs /\ systemReqs' = systemReqs \ {t}
    /\ entry' \in {entry} \cup (IF t \in alive THEN {[entry EXCEPT ![t].system = TRUE]} ELSE {})
    /\ UNCHANGED <<hostVars, rows, loads, reached, statusReqs, editVars, fleetEvents>>

\* The summary's entries, and what a row shows.
Entries == {t \in Rows : entry[t] # Fresh}
FleetRow(t) == [tag |-> entry[t].st, removable |-> t \notin BuiltIn]

OpenForm   == ~adding /\ adding' = TRUE /\ UNCHANGED <<hostVars, rows, loads, pollVars, isAdding, removing, fleetEvents>>
CancelForm == /\ adding /\ isAdding = {} /\ adding' = FALSE
              /\ UNCHANGED <<hostVars, rows, loads, pollVars, isAdding, removing, fleetEvents>>

HandleAdd(t) ==
    /\ adding /\ isAdding = {} /\ Happens
    /\ isAdding' = {[t |-> t, st |-> "sent"]}
    /\ UNCHANGED <<hostVars, rows, loads, pollVars, adding, removing>>

AddAnswered(a) ==
    /\ a \in isAdding /\ a.st # "sent" /\ isAdding' = {}
    /\ IF a.st = "ok" THEN adding' = FALSE /\ loads' = loads \cup {Asked} ELSE UNCHANGED <<adding, loads>>
    /\ UNCHANGED <<hostVars, rows, pollVars, removing, fleetEvents>>

\* Remove, of a row; the question has been answered.
HandleRemove(t) ==
    /\ t \in Rows /\ FleetRow(t).removable /\ Happens
    /\ removing' = removing \cup {[t |-> t, st |-> "sent"]}
    /\ UNCHANGED <<hostVars, rows, loads, pollVars, adding, isAdding>>

RemoveAnswered(r) ==
    /\ r \in removing /\ r.st # "sent" /\ removing' = removing \ {r}
    /\ loads' = IF r.st = "ok" THEN loads \cup {Asked} ELSE loads
    /\ UNCHANGED <<hostVars, rows, pollVars, adding, isAdding, fleetEvents>>

Next ==
    \/ AliveChanges \/ ListHandled \/ Poll \/ OpenForm \/ CancelForm
    \/ \E l \in loads : ListRead(l)
    \/ \E t \in Testers : StatusHandled(t) \/ StatusRead(t) \/ StatusLost(t) \/ SystemRead(t) \/ HandleRemove(t)
    \/ \E t \in Testers \ BuiltIn : HandleAdd(t)
    \/ \E a \in isAdding : AddHandled(a) \/ AddAnswered(a)
    \/ \E r \in removing : RemoveHandled(r) \/ RemoveAnswered(r)

-----------------------------------------------------------------------------
(* Properties. *)

\* A row's CPU layout is read again after every outage: a tester counts as
\* reached only while its row says it answers, although the list is read
\* anew and rows are removed while polls are under way
\* (TesterStatusPage.tsx:428-429, 447-456).
ReachedIsUp == \A t \in reached : t \in Rows /\ entry[t].st = "up"

=============================================================================
