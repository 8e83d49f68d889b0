---------------------------- MODULE Subscribers ----------------------------
(***************************************************************************)
(* The list of subscribers (SubscribersPage.tsx), read from the free5GC    *)
(* webconsole, searched, paged and selected from, with one subscriber or   *)
(* all the selected ones deleted.  A bulk delete runs in the background:   *)
(* rows can still be deleted one by one meanwhile, and every deletion ends *)
(* with a new read of the list.                                            *)
(***************************************************************************)
EXTENDS Bulk, Ranked

CONSTANTS
    Subs,           \* subscribers, as numbers: the list is sorted by IMSI
    Searches,       \* what a search may match: sets of subscribers
    PageRows,       \* rows per page
    SubsEvents,     \* bound: what the user does, and failing reads
    None

VARIABLES
    remote,         \* the webconsole's subscribers
    list,           \* subscribers
    reads,          \* reads of the list under way: asked for, or the answer
    table,          \* "loading", "failed" (loadError) or "shown"
    search, page,   \* what the search matches; the page wanted
    selected,       \* the selection's keys
    modal,          \* confirmTarget, "bulk", or None
    deletes,        \* single deletions under way
    deletingUe,     \* deletingUeId
    bulking,        \* bulkProgress is set
    targets,        \* the bulk deletion's subscribers
    subsEvents

pageState == <<search, page, selected, modal>>
subsVars == <<remote, list, reads, table, pageState, deletes, deletingUe, bulking, targets,
              bulkVars, subsEvents>>

Happens == subsEvents < SubsEvents /\ subsEvents' = subsEvents + 1

\* pageOf: page p of list l, clamped to the pages that exist.
Pages(l) == IF l = <<>> THEN 1 ELSE (Len(l) + PageRows - 1) \div PageRows
PageOf(l, p) ==
    LET current == IF p > Pages(l) THEN Pages(l) ELSE p
    IN  SubSeq(l, (current - 1) * PageRows + 1,
               IF current * PageRows < Len(l) THEN current * PageRows ELSE Len(l))

\* Sorted by IMSI.
Sorted(S) == InOrder(S)
ItemsOf(l) == {l[i] : i \in DOMAIN l}
Filtered  == list \cap search
Rows      == IF table = "shown" THEN ItemsOf(PageOf(Sorted(Filtered), page)) ELSE {}
Selected  == list \cap selected

SubsTypeOK ==
    /\ remote \subseteq Subs /\ list \subseteq Subs
    /\ reads \subseteq [st : {"asked", "read"}, subs : SUBSET Subs]
    /\ table \in {"loading", "failed", "shown"}
    /\ search \in Searches /\ page \in Nat \ {0} /\ selected \subseteq Subs
    /\ modal = None \/ modal \in Subs \cup {0}
    /\ deletes \subseteq [sub : Subs, st : {"sent", "deleted"}]
    /\ deletingUe \in Subs \cup {0} /\ bulking \in BOOLEAN /\ targets \in Seq(Subs)
    /\ BulkTypeOK /\ subsEvents \in 0 .. SubsEvents

Asked == [st |-> "asked", subs |-> {}]

\* refresh; the table is not shown until it is answered.
Refresh == reads' = reads \cup {Asked} /\ table' = "loading"

Init ==
    /\ remote \in {Subs, Subs \ {1}} /\ list = {}
    /\ reads = {Asked} /\ table = "loading"
    /\ search = Subs /\ page = 1 /\ selected = {} /\ modal = None
    /\ deletes = {} /\ deletingUe = 0 /\ bulking = FALSE /\ targets = <<>>
    /\ NoBulk /\ subsEvents = 0

-----------------------------------------------------------------------------
(* Reads of the list. *)

ReadHandled ==
    /\ Asked \in reads
    /\ reads' = (reads \ {Asked}) \cup {[st |-> "read", subs |-> remote]}
    /\ UNCHANGED <<remote, list, table, pageState, deletes, deletingUe, bulking, targets, bulkVars, subsEvents>>

ReadShown(r) ==
    /\ r.st = "read" /\ reads' = reads \ {r}
    /\ list' = r.subs /\ table' = "shown"
    /\ UNCHANGED <<remote, pageState, deletes, deletingUe, bulking, targets, bulkVars, subsEvents>>

ReadFailed(r) ==
    /\ Happens /\ reads' = reads \ {r} /\ table' = "failed"
    /\ UNCHANGED <<remote, list, pageState, deletes, deletingUe, bulking, targets, bulkVars>>

-----------------------------------------------------------------------------
(* The user. *)

untouched == <<remote, list, reads, table, deletes, deletingUe, bulking, targets, bulkVars>>

Search ==
    /\ modal = None /\ Happens
    /\ search' \in Searches \ {search} /\ page' = 1
    /\ UNCHANGED <<untouched, selected, modal>>

TurnPage ==
    /\ modal = None /\ table = "shown" /\ Happens
    /\ page' \in (1 .. Pages(Sorted(Filtered))) \ {page}
    /\ UNCHANGED <<untouched, search, selected, modal>>

Toggled(s) == IF s \in selected THEN selected \ {s} ELSE selected \cup {s}
SetMany(S, on) == IF on THEN selected \cup S ELSE selected \ S

\* A row's checkbox, and the header's, for all that match on every page.
SelectRow ==
    /\ modal = None /\ ~bulking /\ Happens
    /\ \E s \in Rows : selected' = Toggled(s)
    /\ UNCHANGED <<untouched, search, page, modal>>

SelectMatching ==
    /\ modal = None /\ ~bulking /\ Rows # {} /\ Happens
    /\ selected' = SetMany(Filtered, ~(Filtered \subseteq selected))
    /\ UNCHANGED <<untouched, search, page, modal>>

ClearSelection ==
    /\ modal = None /\ Selected # {} /\ ~bulking /\ selected' = {}
    /\ UNCHANGED <<untouched, search, page, modal, subsEvents>>

\* A row's Delete, and Delete selected (0): a question first.
AskDelete ==
    /\ modal = None /\ Happens
    /\ modal' \in Rows \ {deletingUe}
    /\ UNCHANGED <<untouched, search, page, selected>>

AskBulkDelete ==
    /\ modal = None /\ Selected # {} /\ ~bulking /\ Happens
    /\ modal' = 0
    /\ UNCHANGED <<untouched, search, page, selected>>

Cancel ==
    /\ modal # None /\ modal' = None
    /\ UNCHANGED <<untouched, search, page, selected, subsEvents>>

HandleConfirmDelete ==
    /\ modal \in Subs /\ modal' = None
    /\ deletingUe' = modal /\ deletes' = deletes \cup {[sub |-> modal, st |-> "sent"]}
    /\ UNCHANGED <<remote, list, reads, table, search, page, selected, bulking, targets, bulkVars, subsEvents>>

\* handleBulkDelete, up to runLimited.
HandleBulkDelete ==
    /\ modal = 0 /\ modal' = None
    /\ bulking' = TRUE /\ targets' = Sorted(Selected) /\ BulkStart(Cardinality(Selected))
    /\ UNCHANGED <<remote, list, reads, table, search, page, selected, deletes, deletingUe, subsEvents>>

-----------------------------------------------------------------------------
(* Deletions. *)

\* The webconsole deletes it, or answers with an error, maybe after doing so.
Deleted(s, ok) == remote' \in IF ok THEN {remote \ {s}} ELSE {remote, remote \ {s}}

\* Of handleConfirmDelete: the list is read again (its read is not told from
\* the others under way) before the row's flag, which another deletion may
\* have taken over, is taken back.
DeleteAnswered(d) ==
    /\ d.st = "sent"
    /\ \/ /\ Deleted(d.sub, TRUE) /\ Refresh
          /\ deletes' = (deletes \ {d}) \cup {[d EXCEPT !.st = "deleted"]} /\ UNCHANGED deletingUe
       \/ /\ Deleted(d.sub, FALSE) /\ deletes' = deletes \ {d} /\ deletingUe' = 0
          /\ UNCHANGED <<reads, table>>
    /\ UNCHANGED <<list, pageState, bulking, targets, bulkVars, subsEvents>>

DeleteEnds(d) ==
    /\ d.st = "deleted"
    /\ deletes' = deletes \ {d} /\ deletingUe' = 0
    /\ UNCHANGED <<remote, list, reads, table, pageState, bulking, targets, bulkVars, subsEvents>>

BulkItem(w, ok) ==
    /\ bulking /\ BulkFinish(w, ok) /\ Deleted(targets[at[w]], ok)
    /\ UNCHANGED <<list, reads, table, pageState, deletes, deletingUe, bulking, targets, subsEvents>>

\* The failed ones stay selected.
BulkDone ==
    /\ bulking /\ BulkEnded
    /\ bulking' = FALSE /\ selected' = {targets[i] : i \in failed}
    /\ Refresh
    /\ UNCHANGED <<remote, list, search, page, modal, deletes, deletingUe, targets, bulkVars, subsEvents>>

-----------------------------------------------------------------------------
Next ==
    \/ ReadHandled \/ \E r \in reads : ReadShown(r) \/ ReadFailed(r)
    \/ Search \/ TurnPage \/ SelectRow \/ SelectMatching \/ ClearSelection
    \/ AskDelete \/ AskBulkDelete \/ Cancel
    \/ HandleConfirmDelete \/ HandleBulkDelete
    \/ \E d \in deletes : DeleteAnswered(d) \/ DeleteEnds(d)
    \/ \E w \in Workers, ok \in BOOLEAN : BulkItem(w, ok)
    \/ BulkDone

-----------------------------------------------------------------------------
(* Properties. *)

\* A bulk delete loses nobody: when it ends, each subscriber it was for is
\* gone from the webconsole or selected, so that it can be retried, whatever
\* failed, was reread or was deleted beside it (SubscribersPage.tsx:106-114,
\* bulk.ts:12-38).
NobodyLost == bulking /\ ~bulking' => ItemsOf(targets) \cap remote' \subseteq selected'

=============================================================================
