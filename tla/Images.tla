------------------------------- MODULE Images -------------------------------
(***************************************************************************)
(* The images page (ImagesPage.tsx): pulls and clears of the container     *)
(* images the lab deploys, one by one, all missing one after another, or   *)
(* all present at once.  Each runs in the background and reads the list    *)
(* again when it is done; a flag per image names the action under way and  *)
(* disables its buttons.                                                   *)
(***************************************************************************)
EXTENDS Integers, FiniteSets, FiniteSetsExt

CONSTANTS
    Imgs,           \* images, as numbers: pullMissing goes through them in order
    ImageEvents,    \* bound: what the user does
    None

VARIABLES
    onHost,         \* the images on the host
    images,         \* the list: those shown as present, None while loading
    pending,        \* image -> the action it is flagged with
    jobs,           \* the page's actions under way
    confirm,        \* confirmClearTarget, 0 for confirmClearAll, or None
    imageEvents

imageVars == <<onHost, images, pending, jobs, confirm, imageEvents>>

\* A job has the images it is still to call the backend for and those it
\* flagged; then it reads the list, and list is what it read.
Jobs == [kind : {"pull", "clear", "missing", "all", "refresh"}, todo : SUBSET Imgs, mine : SUBSET Imgs,
         step : {"calling", "reading", "read"}, list : SUBSET Imgs]
Job(kind, todo) == [kind |-> kind, todo |-> todo, mine |-> todo, step |-> "calling", list |-> {}]
Reading == [Job("refresh", {}) EXCEPT !.step = "reading"]

Flag(kind) == IF kind \in {"pull", "missing"} THEN "pull" ELSE "clear"

ImagesTypeOK ==
    /\ onHost \subseteq Imgs /\ (images = None \/ images \subseteq Imgs)
    /\ pending \in [Imgs -> {"no", "pull", "clear"}] /\ jobs \subseteq Jobs
    /\ confirm \in Imgs \cup {0, None} /\ imageEvents \in 0 .. ImageEvents

Happens == imageEvents < ImageEvents /\ imageEvents' = imageEvents + 1

Init ==
    /\ onHost \in SUBSET Imgs /\ images = None
    /\ pending = [i \in Imgs |-> "no"] /\ jobs = {Reading}
    /\ confirm = None /\ imageEvents = 0

-----------------------------------------------------------------------------
(* The user. *)

Shown     == images # None /\ confirm = None
Missing   == Imgs \ images

\* Mutant of AnyPending: only this row's flag is looked at.
AnyPendingHere == FALSE

AnyPending == \E i \in Imgs : pending[i] # "no"

Begin(kind, is) ==
    /\ jobs' = jobs \cup {Job(kind, is)}
    /\ pending' = [i \in Imgs |-> IF i \in is THEN Flag(kind) ELSE pending[i]]

HandlePull(i) ==
    /\ Shown /\ pending[i] = "no" /\ Happens /\ Begin("pull", {i})
    /\ UNCHANGED <<onHost, images, confirm>>

\* Those not flagged already; nothing pulls them a second time meanwhile.
PullMissing ==
    /\ Shown /\ Missing # {} /\ ~AnyPending /\ Happens
    /\ Begin("missing", Missing)
    /\ UNCHANGED <<onHost, images, confirm>>

AskClear ==
    /\ Shown /\ Happens
    /\ \/ confirm' \in {i \in images : pending[i] = "no"}
       \/ images # {} /\ ~AnyPending /\ confirm' = 0
    /\ UNCHANGED <<onHost, images, pending, jobs>>

CancelClear ==
    /\ confirm # None /\ confirm' = None
    /\ UNCHANGED <<onHost, images, pending, jobs, imageEvents>>

\* handleConfirmClear and handleConfirmClearAll, of the images listed by now.
HandleConfirmClear ==
    /\ confirm # None /\ confirm' = None
    /\ IF confirm = 0
       THEN IF images = {} THEN UNCHANGED <<jobs, pending>> ELSE Begin("all", images)
       ELSE Begin("clear", {confirm})
    /\ UNCHANGED <<onHost, images, imageEvents>>

Refresh ==
    /\ Shown /\ Happens
    /\ jobs' = jobs \cup {Reading}
    /\ UNCHANGED <<onHost, images, pending, confirm>>

-----------------------------------------------------------------------------
(* The jobs. *)

Becomes(j, k) == jobs' = (jobs \ {j}) \cup {k}
Unflag(is) == pending' = [i \in Imgs |-> IF i \in is THEN "no" ELSE pending[i]]

\* The image a job calls the backend for: pullMissing goes in order.
Turn(j, i) == i \in j.todo /\ (j.kind = "missing" => i = Min(j.todo))

\* A failed pull or clear of one image takes its flag back at once; the jobs
\* on many go on with the rest, and read the list in any case.
Called(j, i) ==
    /\ j.step = "calling" /\ Turn(j, i)
    /\ \E ok \in BOOLEAN :
        /\ onHost' = IF ~ok THEN onHost ELSE IF Flag(j.kind) = "pull" THEN onHost \cup {i} ELSE onHost \ {i}
        /\ IF j.kind \in {"pull", "clear"} /\ ~ok THEN jobs' = jobs \ {j} /\ Unflag({i})
           ELSE LET k == [j EXCEPT !.todo = @ \ {i}, !.mine = IF j.kind = "missing" THEN @ \ {i} ELSE @,
                                   !.step = IF j.todo = {i} THEN "reading" ELSE @]
                IN  Becomes(j, k) /\ Unflag(j.mine \ k.mine)
    /\ UNCHANGED <<images, confirm, imageEvents>>

ListHandled(j) ==
    /\ j.step = "reading" /\ Becomes(j, [j EXCEPT !.step = "read", !.list = onHost])
    /\ UNCHANGED <<onHost, images, pending, confirm, imageEvents>>

\* The list is shown, or the read failed; then the job's flags go.
ListShown(j) ==
    /\ j.step = "read" /\ jobs' = jobs \ {j} /\ Unflag(j.mine)
    /\ images' \in {j.list, IF images = None THEN {} ELSE images}
    /\ UNCHANGED <<onHost, confirm, imageEvents>>

Next ==
    \/ PullMissing \/ AskClear \/ CancelClear \/ HandleConfirmClear \/ Refresh
    \/ \E i \in Imgs : HandlePull(i)
    \/ \E j \in jobs : ListHandled(j) \/ ListShown(j) \/ \E i \in Imgs : Called(j, i)

-----------------------------------------------------------------------------
(* Properties. *)

\* An image has one action at a time, and is flagged with it as long as it
\* lasts: no image is pulled and cleared at once, or twice, and no action
\* takes another's flag away (ImagesPage.tsx:39-42).
OneActionPerImage ==
    /\ \A j, k \in jobs : j # k => j.mine \cap k.mine = {}
    /\ \A j \in jobs : j.todo \subseteq j.mine /\ \A i \in j.mine : pending[i] = Flag(j.kind)

=============================================================================
