------------------------------ MODULE Profiles ------------------------------
(***************************************************************************)
(* The page of saved profiles (TesterProfilesPage.tsx): a searched and     *)
(* paged list, a selection that spans the pages and the searches, and the  *)
(* deletion of several at once, all asked for together, over a store       *)
(* others save to and delete from as well.                                 *)
(***************************************************************************)
EXTENDS Integers, FiniteSets, Sequences

CONSTANTS
    Ids,            \* profile IDs, as numbers, in the order of the list
    Found,          \* what the search and the tester filter may match
    PageRows,       \* PROFILES_PAGE
    ProfilesEvents, \* bound: what the users and the network do
    None

VARIABLES
    store,          \* the profiles saved
    profiles,       \* those listed, None while loading
    selected,       \* ticked
    found,          \* those query and testerFilter match
    page,           \* as asked for; pageOf clamps it
    toDelete,       \* the profiles waiting for the confirmation, or None
    isDeleting,
    deletes,        \* handleDelete's requests
    told,           \* of the deletion that settled last: those that failed
    lists,          \* refreshes under way: None, or the list read
    profilesEvents

profilesVars == <<store, profiles, selected, found, page, toDelete, isDeleting, deletes, told, lists, profilesEvents>>

Deletes == [id : Ids, st : {"sent", "done", "failed"}]

ProfilesTypeOK ==
    /\ store \subseteq Ids /\ (profiles = None \/ profiles \subseteq Ids)
    /\ selected \subseteq Ids /\ found \in Found /\ page \in 1 .. Cardinality(Ids)
    /\ (toDelete = None \/ toDelete \subseteq Ids)
    /\ isDeleting \in BOOLEAN /\ deletes \subseteq Deletes /\ told \subseteq Ids
    /\ \A l \in lists : l = None \/ l \subseteq Ids
    /\ profilesEvents \in 0 .. ProfilesEvents

Happens == profilesEvents < ProfilesEvents /\ profilesEvents' = profilesEvents + 1

Init ==
    /\ store \in SUBSET Ids /\ profiles = None /\ selected = {} /\ found = Ids /\ page = 1
    /\ toDelete = None /\ isDeleting = FALSE /\ deletes = {} /\ told = {} /\ lists = {None}
    /\ profilesEvents = 0

-----------------------------------------------------------------------------
(* What is shown. *)

Listed   == IF profiles = None THEN {} ELSE profiles
Filtered == Listed \cap found
Chosen   == Listed \cap selected
AllSelected == Filtered # {} /\ Filtered \subseteq selected

\* pageOf: the rows of the page, which is clamped to the pages there are.
Pages   == LET n == Cardinality(Filtered) IN IF n = 0 THEN 1 ELSE (n + PageRows - 1) \div PageRows
Current == IF page > Pages THEN Pages ELSE page
Rows    == {i \in Filtered : LET at == Cardinality({j \in Filtered : j < i})
                             IN  at >= (Current - 1) * PageRows /\ at < Current * PageRows}

\* The dialog is over the page.
Free == profiles # None /\ toDelete = None

-----------------------------------------------------------------------------
(* The store and others. *)

SavedElsewhere ==
    /\ Happens /\ \E i \in Ids : store' = IF i \in store THEN store \ {i} ELSE store \cup {i}
    /\ UNCHANGED <<profiles, selected, found, page, toDelete, isDeleting, deletes, told, lists>>

ListHandled ==
    /\ None \in lists /\ lists' = (lists \ {None}) \cup {store}
    /\ UNCHANGED <<store, profiles, selected, found, page, toDelete, isDeleting, deletes, told, profilesEvents>>

\* A profile that is gone cannot be deleted again.
DeleteHandled(d) ==
    /\ d.st = "sent"
    /\ \/ /\ store' = store \ {d.id} /\ UNCHANGED profilesEvents
          /\ deletes' = (deletes \ {d}) \cup {[d EXCEPT !.st = IF d.id \in store THEN "done" ELSE "failed"]}
       \/ /\ Happens /\ deletes' = (deletes \ {d}) \cup {[d EXCEPT !.st = "failed"]} /\ UNCHANGED store
    /\ UNCHANGED <<profiles, selected, found, page, toDelete, isDeleting, told, lists>>

-----------------------------------------------------------------------------
(* The page. *)

\* Selections of profiles that are gone are forgotten.
Refreshed(l) == profiles' = l /\ selected' = selected \cap l

ListAnswered(l) ==
    /\ l # None /\ lists' = lists \ {l}
    /\ Refreshed(l)
    /\ UNCHANGED <<store, found, page, toDelete, isDeleting, deletes, told, profilesEvents>>

\* A new search starts at the first page.
Search ==
    /\ Free /\ Happens /\ found' \in Found \ {found} /\ page' = 1
    /\ UNCHANGED <<store, profiles, selected, toDelete, isDeleting, deletes, told, lists>>

Turn ==
    /\ Free /\ Happens /\ page' \in {1, Current - 1, Current + 1, Pages} \cap 1 .. Pages /\ page' # page
    /\ UNCHANGED <<store, profiles, selected, found, toDelete, isDeleting, deletes, told, lists>>

unticked == <<store, profiles, found, page, toDelete, isDeleting, deletes, told, lists>>

Toggle ==
    /\ Free /\ ~isDeleting /\ Happens
    /\ \E i \in Rows : selected' = IF i \in selected THEN selected \ {i} ELSE selected \cup {i}
    /\ UNCHANGED unticked

\* The box of the table's head: all the search finds, and nothing else.
SelectAll ==
    /\ Free /\ ~isDeleting /\ Filtered # {} /\ Happens
    /\ selected' = IF AllSelected THEN {} ELSE Filtered
    /\ UNCHANGED unticked

ClearSelection ==
    /\ Free /\ ~isDeleting /\ Chosen # {} /\ Happens /\ selected' = {}
    /\ UNCHANGED unticked

\* Delete of a row, or of the selection, those the search hides included.
AskDelete ==
    /\ Free /\ ~isDeleting /\ Happens
    /\ toDelete' \in {{i} : i \in Rows}
    /\ UNCHANGED <<store, profiles, selected, found, page, isDeleting, deletes, told, lists>>

AskDeleteSelected ==
    /\ Free /\ ~isDeleting /\ Chosen # {} /\ Happens
    /\ toDelete' = Chosen
    /\ UNCHANGED <<store, profiles, selected, found, page, isDeleting, deletes, told, lists>>

CancelDelete ==
    /\ toDelete # None /\ toDelete' = None
    /\ UNCHANGED <<store, profiles, selected, found, page, isDeleting, deletes, told, lists, profilesEvents>>

HandleDelete ==
    /\ toDelete # None /\ toDelete' = None /\ isDeleting' = TRUE
    /\ deletes' = [id : toDelete, st : {"sent"}]
    /\ UNCHANGED <<store, profiles, selected, found, page, told, lists, profilesEvents>>

\* Promise.allSettled: every answer is in.
Over(ds) == \A d \in ds : d.st # "sent"

\* The failures are told, and the list is read again.
Settled ==
    /\ isDeleting /\ Over(deletes)
    /\ told' = {d.id : d \in {e \in deletes : e.st = "failed"}}
    /\ deletes' = {d \in deletes : d.st = "sent"}
    /\ isDeleting' = FALSE /\ lists' = lists \cup {None}
    /\ UNCHANGED <<store, profiles, selected, found, page, toDelete, profilesEvents>>

-----------------------------------------------------------------------------
Next ==
    \/ SavedElsewhere \/ ListHandled \/ Search \/ Turn
    \/ Toggle \/ SelectAll \/ ClearSelection \/ AskDelete \/ AskDeleteSelected \/ CancelDelete \/ HandleDelete \/ Settled
    \/ \E d \in deletes : DeleteHandled(d)
    \/ \E l \in lists : ListAnswered(l)

-----------------------------------------------------------------------------
(* Properties. *)

\* No profile is deleted behind the page's back: while deletions are under
\* way it says so and lets nothing else be ticked or deleted
\* (TesterProfilesPage.tsx:95-109).
DeletesAreShown == deletes # {} => isDeleting /\ toDelete = None

\* Delete selected takes the ticked profiles that are listed: a profile that
\* is gone is not ticked when the same ID is listed again
\* (TesterProfilesPage.tsx:65-70, 82).
TickedAreListed == selected \subseteq Listed

=============================================================================
