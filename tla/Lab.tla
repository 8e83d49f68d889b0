-------------------------------- MODULE Lab --------------------------------
(***************************************************************************)
(* The lab dashboard (DashboardPage.tsx and its hooks) and the deploy      *)
(* handlers of the backend it calls (processor/deploy.go).  The cards are  *)
(* what the last status answers said; a button runs a call in the          *)
(* background: the backend checks the dependency order, runs a slow        *)
(* compose command, and the page reads the status again.  Tear down runs   *)
(* the stops of everything, with the cards of the moment it was clicked.   *)
(* A container query of the backend is taken to succeed.                   *)
(***************************************************************************)
EXTENDS Naturals, FiniteSets

CONSTANTS
    UeIds,          \* subscribers' UE IDs
    SliceOf,        \* the gNB slice of a UE's first session
    Templates,      \* the core's compose templates: "basic", "ulcl-2slice"
    LateAnswers,    \* bound: status answers held back at a time
    LabEvents,      \* bound: what the user does, containers that fail, subscribers deleted
    Nothing

Gnbs == {"gnb", "slice1", "slice2"}
Targets == {"core"} \cup Gnbs

\* What has a card is no subscriber.
ASSUME LabOK == UeIds \cap Targets = {} /\ LabEvents \in Nat

NodeStatus == {"running", "stopped", "unhealthy", "deploying"}

VARIABLES
    host, hostTemplate, hostUe, \* what is deployed; a UE "never" deployed has no directory
    subscribers,                \* the webconsole's
    card, nfs,                  \* useDeployTarget: node.status; the template the core's services show
    rows, ueCard,               \* useUeInstances: subscribers, instancesByUeId
    late,                       \* status answers still to come, held back
    busy, busyUe,               \* isActionPending, pendingInstances
    template,                   \* selectedTemplate
    calls,                      \* the deploy calls under way
    tearing, plan,              \* handleTearDown: its step, the cards it captured
    tore, labEvents             \* whether Tear down was ever clicked

hostVars == <<host, hostTemplate, hostUe, subscribers>>
cardVars == <<card, nfs, rows, ueCard>>
tearVars == <<tearing, plan, tore>>
labVars == <<hostVars, cardVars, late, busy, busyUe, template, calls, tearVars, labEvents>>

UeStatus == NodeStatus \cup {"never"}
Things == Targets \cup UeIds
Calls == [by : {"own", "all", "tear"}, on : Things, what : {"up", "down"},
          step : {"asked", "composing", "starting", "done", "failed"}]

LabTypeOK ==
    /\ host \in [Targets -> NodeStatus] /\ hostTemplate \in Templates
    /\ hostUe \in [UeIds -> UeStatus] /\ subscribers \subseteq UeIds
    /\ card \in [Targets -> NodeStatus] /\ nfs \in Templates \cup {Nothing}
    /\ rows \subseteq UeIds /\ ueCard \in [UeIds -> UeStatus]
    /\ busy \in [Targets -> BOOLEAN] /\ busyUe \in [UeIds -> BOOLEAN] /\ template \in Templates
    /\ calls \subseteq Calls
    /\ late \subseteq [on : Targets, status : NodeStatus, nfs : Templates \cup {Nothing}]
                      \cup [on : {"ues"}, status : [UeIds -> UeStatus]]
    /\ tearing \in {"no", "ues", "gnbs", "core"} /\ plan \subseteq Targets
    /\ tore \in BOOLEAN /\ labEvents \in 0 .. LabEvents

Happens == labEvents < LabEvents /\ labEvents' = labEvents + 1

-----------------------------------------------------------------------------
(* What the page derives from its cards. *)

\* detectFree5gcTemplate, or what the picker says.
CoreTemplate == IF nfs = Nothing THEN template ELSE nfs
TwoSlice == CoreTemplate = "ulcl-2slice"

\* computeGnbAggregateNode: under two slices the one card of the gNB.
GnbShown ==
    LET both == {card["slice1"], card["slice2"]} IN
    IF ~TwoSlice THEN card["gnb"]
    ELSE IF "unhealthy" \in both THEN "unhealthy"
    ELSE IF "deploying" \in both THEN "deploying"
    ELSE IF "running" \in both THEN "running" ELSE "stopped"

RowStatus(u) == IF ueCard[u] = "never" THEN "stopped" ELSE ueCard[u]
UpRows == {u \in rows : RowStatus(u) # "stopped"}

\* actionBlockedReason of the card selected.
Blocked(selected) ==
    \/ selected = "core" /\ card["core"] # "stopped" /\ GnbShown # "stopped"
    \/ selected = "gnb" /\ GnbShown # "stopped" /\ UpRows # {}
    \/ selected = "gnb" /\ GnbShown = "stopped" /\ card["core"] # "running"

AnythingUp == UpRows # {} \/ \E t \in Targets : card[t] # "stopped"

\* isActionPending of the card selected, and whether its button may be clicked.
ActionPending(selected) ==
    IF selected = "gnb" /\ TwoSlice THEN busy["slice1"] \/ busy["slice2"] ELSE busy[selected]

CanAct(selected) == ~ActionPending(selected) /\ ~Blocked(selected)

\* ueDeployBlockedReason.
UeBlocked == GnbShown = "stopped"

\* The button of a UE's row, and of the aside when the UE is selected.
UeButton(u) ==
    IF busyUe[u] THEN {}
    ELSE IF RowStatus(u) # "stopped" THEN {"stop"} ELSE IF UeBlocked THEN {} ELSE {"deploy"}

-----------------------------------------------------------------------------
Status(t) == [on |-> t, status |-> host[t],
              nfs |-> IF t = "core" /\ host["core"] # "stopped" THEN hostTemplate ELSE Nothing]

\* Labs the page is opened on; its first answers are in.
Labs == {[t \in Targets |-> "stopped"],
         [t \in Targets |-> IF t \in {"core", "gnb"} THEN "running" ELSE "stopped"],
         [t \in Targets |-> IF t = "gnb" THEN "stopped" ELSE "running"]}

LabInit ==
    /\ host \in Labs /\ hostTemplate \in Templates
    /\ (host["gnb"] = "running" => hostTemplate = "basic")
    /\ (host["slice1"] = "running" => hostTemplate = "ulcl-2slice")
    /\ hostUe \in [UeIds -> IF host["core"] = "stopped" THEN {"never"} ELSE {"never", "running"}]
    /\ subscribers = UeIds
    /\ card = host /\ nfs = Status("core").nfs
    /\ rows = (IF host["core"] = "stopped" THEN {} ELSE subscribers) /\ ueCard = hostUe
    /\ late = {}
    /\ busy = [t \in Targets |-> FALSE] /\ busyUe = [u \in UeIds |-> FALSE]
    /\ template \in Templates /\ (host["core"] # "stopped" => template = "basic") /\ calls = {}
    /\ tearing = "no" /\ plan = {} /\ tore = FALSE /\ labEvents = 0

(* The polls, every four seconds. *)

ShowStatus(a) ==
    /\ card' = [card EXCEPT ![a.on] = a.status]
    /\ nfs' = IF a.on = "core" THEN a.nfs ELSE nfs

\* Mutant of Poll: no timer, the status is read until there is one to show.
PollOnce(t) ==
    /\ card[t] = "stopped" /\ ShowStatus(Status(t))
    /\ UNCHANGED <<hostVars, rows, ueCard, late, busy, busyUe, template, calls, tearVars, labEvents>>

\* A status read and answered at once; one that fails leaves the card as it is.
Poll(t) ==
    /\ ShowStatus(Status(t))
    /\ UNCHANGED <<hostVars, rows, ueCard, late, busy, busyUe, template, calls, tearVars, labEvents>>

PollInstances ==
    /\ ueCard' = hostUe
    /\ UNCHANGED <<hostVars, card, nfs, rows, late, busy, busyUe, template, calls, tearVars, labEvents>>

\* An answer the network holds back, and its arrival after later ones.
PollLate(a) ==
    /\ Cardinality(late) < LateAnswers /\ late' = late \cup {a}
    /\ UNCHANGED <<hostVars, cardVars, busy, busyUe, template, calls, tearVars, labEvents>>

LateAnswer(a) ==
    /\ a \in late /\ late' = late \ {a}
    /\ IF a.on \in Targets THEN ShowStatus(a) /\ UNCHANGED ueCard
                           ELSE ueCard' = a.status /\ UNCHANGED <<card, nfs>>
    /\ UNCHANGED <<hostVars, rows, busy, busyUe, template, calls, tearVars, labEvents>>

\* refreshSubscribers; the webconsole is a part of the core.
SubscribersRead ==
    /\ host["core"] # "stopped" /\ rows' = subscribers
    /\ UNCHANGED <<hostVars, card, nfs, ueCard, late, busy, busyUe, template, calls, tearVars, labEvents>>

-----------------------------------------------------------------------------
(* The user; selecting a card is a part of clicking its button. *)

Ask(by, things, what) == [by : {by}, on : things, what : {what}, step : {"asked"}]

\* deploy and stop of useDeployTarget.
Act(ts, what) ==
    /\ calls' = calls \cup Ask("own", ts, what)
    /\ busy' = [t \in Targets |-> t \in ts \/ busy[t]]

PickTemplate ==
    /\ card["core"] = "stopped" /\ ~busy["core"] /\ Happens
    /\ template' \in Templates \ {template}
    /\ UNCHANGED <<hostVars, cardVars, late, busy, busyUe, calls, tearVars>>

\* handlePrimaryAction on one target, and the button Deploy core.
PrimaryAction(t) ==
    /\ t \in IF TwoSlice THEN {"core"} ELSE {"core", "gnb"}
    /\ CanAct(t) /\ Happens
    /\ Act({t}, IF card[t] = "stopped" THEN "up" ELSE "down")
    /\ UNCHANGED <<hostVars, cardVars, late, busyUe, template, tearVars>>

\* Under two slices the gNB's button acts on both.
PrimaryActionBoth ==
    LET slices == {"slice1", "slice2"} IN
    /\ TwoSlice /\ CanAct("gnb") /\ Happens
    /\ Act(slices, IF \A s \in slices : card[s] = "stopped" THEN "up" ELSE "down")
    /\ UNCHANGED <<hostVars, cardVars, late, busyUe, template, tearVars>>

DeployUe(u) ==
    /\ u \in rows /\ "deploy" \in UeButton(u) /\ Happens
    /\ calls' = calls \cup Ask("own", {u}, "up") /\ busyUe' = [busyUe EXCEPT ![u] = TRUE]
    /\ UNCHANGED <<hostVars, cardVars, late, busy, template, tearVars>>

StopUe(u) ==
    /\ u \in rows /\ "stop" \in UeButton(u) /\ Happens
    /\ calls' = calls \cup Ask("own", {u}, "down") /\ busyUe' = [busyUe EXCEPT ![u] = TRUE]
    /\ UNCHANGED <<hostVars, cardVars, late, busy, template, tearVars>>

\* Mutant of AllFree: Stop all only needs something to stop.
AllFreeUnasked == UpRows # {}

AllFree == UpRows # {} /\ \A u \in UpRows : ~busyUe[u]

StopAllBy(by) ==
    /\ calls' = calls \cup Ask(by, UpRows, "down")
    /\ busyUe' = [u \in UeIds |-> u \in UpRows \/ busyUe[u]]

StopAll ==
    /\ AllFree /\ Happens /\ StopAllBy("all")
    /\ UNCHANGED <<hostVars, cardVars, late, busy, template, tearVars>>

-----------------------------------------------------------------------------
(* Tear down: the UEs, then the gNBs, then the core. *)

\* The step after the UEs or the gNBs are stopped, p what is to be stopped.
Follows(step, p) ==
    IF step = "ues" /\ p \cap Gnbs # {} THEN "gnbs"
    ELSE IF step # "core" /\ "core" \in p THEN "core" ELSE "no"

\* Going on after step, with cs the calls left and b the flags.
GoOn(step, p, cs, b) ==
    LET next == Follows(step, p)
        ts == IF next = "gnbs" THEN p \cap Gnbs ELSE IF next = "core" THEN {"core"} ELSE {}
    IN /\ tearing' = next
       /\ calls' = cs \cup Ask("tear", ts, "down")
       /\ busy' = [t \in Targets |-> t \in ts \/ b[t]]

\* One tear down at a time, the stops an aborted one left behind included (a bound).
TearDown ==
    /\ AnythingUp /\ tearing = "no" /\ ~\E c \in calls : c.by = "tear"
    /\ Happens /\ tore' = TRUE
    /\ plan' = {t \in Targets : card[t] # "stopped"}
    /\ IF UpRows # {} THEN StopAllBy("tear") /\ tearing' = "ues" /\ UNCHANGED busy
                      ELSE GoOn("ues", plan', calls, busy) /\ UNCHANGED busyUe
    /\ UNCHANGED <<hostVars, cardVars, late, template>>

-----------------------------------------------------------------------------
(* The backend. *)

UeUp(u) == hostUe[u] \notin {"stopped", "never"}

\* resolveUeGnbTarget: the gNB a UE is to dial, Nothing for a refusal.
UeGnb(u) ==
    IF \E s \in {"slice1", "slice2"} : host[s] # "stopped"
    THEN IF host[SliceOf[u]] # "stopped" THEN SliceOf[u] ELSE Nothing
    ELSE IF host["gnb"] # "stopped" THEN "gnb" ELSE Nothing

\* checkDeployPrerequisite, checkStopDependents; a UE's deploy first reads its
\* subscription from the webconsole.
Refused(c) ==
    \/ c.what = "up" /\ c.on \in Gnbs /\ host["core"] # "running"
    \/ c.what = "down" /\ c.on = "core" /\ \E g \in Gnbs : host[g] # "stopped"
    \/ c.what = "down" /\ c.on \in Gnbs /\ \E u \in UeIds : UeUp(u)
    \/ c.what = "up" /\ c.on \in UeIds
       /\ (host["core"] = "stopped" \/ c.on \notin subscribers \/ UeGnb(c.on) = Nothing)

Step(c, s) == calls' = (calls \ {c}) \cup {[c EXCEPT !.step = s]}

SetHost(x, status) ==
    IF x \in Targets THEN host' = [host EXCEPT ![x] = status] /\ UNCHANGED hostUe
                     ELSE hostUe' = [hostUe EXCEPT ![x] = status] /\ UNCHANGED host

StatusOf(x) == IF x \in Targets THEN host[x] ELSE hostUe[x]

Checked(c) ==
    /\ c \in calls /\ c.step = "asked"
    /\ Step(c, IF Refused(c) THEN "failed" ELSE "composing")
    /\ UNCHANGED <<hostVars, cardVars, late, busy, busyUe, template, tearVars, labEvents>>

\* compose up creates the containers, then waits for them.
Creates(c) ==
    /\ c \in calls /\ c.what = "up" /\ c.step = "composing" /\ Step(c, "starting")
    /\ IF StatusOf(c.on) \in {"stopped", "never"}
       THEN SetHost(c.on, "deploying") ELSE UNCHANGED <<host, hostUe>>
    /\ hostTemplate' = IF c.on = "core" THEN template ELSE hostTemplate
    /\ UNCHANGED <<subscribers, cardVars, late, busy, busyUe, template, tearVars, labEvents>>

\* A deploy that fails is taken down again.
UpEnds(c) ==
    /\ c \in calls /\ c.what = "up" /\ c.step = "starting"
    /\ \/ Step(c, "done") /\ (IF StatusOf(c.on) = "deploying"
                              THEN SetHost(c.on, "running") ELSE UNCHANGED <<host, hostUe>>)
       \/ Step(c, "failed") /\ SetHost(c.on, "stopped")
    /\ UNCHANGED <<hostTemplate, subscribers, cardVars, late, busy, busyUe, template,
                   tearVars, labEvents>>

DownEnds(c) ==
    /\ c \in calls /\ c.what = "down" /\ c.step = "composing"
    /\ \/ Step(c, "done") /\ SetHost(c.on, "stopped")
       \/ Step(c, "failed") /\ UNCHANGED <<host, hostUe>>
    /\ UNCHANGED <<hostTemplate, subscribers, cardVars, late, busy, busyUe, template,
                   tearVars, labEvents>>

Fails(x) ==
    /\ StatusOf(x) = "running" /\ SetHost(x, "unhealthy") /\ Happens
    /\ UNCHANGED <<hostTemplate, subscribers, cardVars, late, busy, busyUe, template, calls, tearVars>>

SubscriberDeleted(u) ==
    /\ u \in subscribers /\ subscribers' = subscribers \ {u} /\ Happens
    /\ UNCHANGED <<host, hostTemplate, hostUe, cardVars, late, busy, busyUe, template, calls, tearVars>>

-----------------------------------------------------------------------------
(* The calls' ends. *)

\* Mutant of Freed: a failed action forgets its flag.
FreedIfDone(t, ok) == IF ok THEN [busy EXCEPT ![t] = FALSE] ELSE busy

\* The finally of deploy and stop.
Freed(t, ok) == [busy EXCEPT ![t] = FALSE]

\* await refresh() after a call that did what it was asked.
Refreshes(c, ok) ==
    IF ok THEN /\ card' = [card EXCEPT ![c.on] = host[c.on]]
               /\ nfs' = IF c.on = "core" THEN Status("core").nfs ELSE nfs
          ELSE UNCHANGED <<card, nfs>>

\* Of useDeployTarget's deploy and stop; ok unless the call or the refresh failed.
TargetEnded(c) ==
    /\ c \in calls /\ c.on \in Targets /\ c.step \in {"done", "failed"}
    /\ \E ok \in IF c.step = "done" THEN BOOLEAN ELSE {FALSE} :
        /\ Refreshes(c, ok)
        /\ LET left == calls \ {c}
               mine == {d \in left : d.by = "tear"}
           IN IF c.by = "tear" /\ tearing # "no" /\ ok /\ mine = {}
              THEN GoOn(tearing, plan, left, Freed(c.on, ok))
              ELSE /\ calls' = left /\ busy' = Freed(c.on, ok)
                   /\ tearing' = IF c.by = "tear" /\ ~ok THEN "no" ELSE tearing
    /\ UNCHANGED <<hostVars, rows, ueCard, late, busyUe, template, plan, tore, labEvents>>

\* Of withPending.
UeEnded(c) ==
    /\ c \in calls /\ c.on \in UeIds /\ c.by = "own" /\ c.step \in {"done", "failed"}
    /\ calls' = calls \ {c} /\ busyUe' = [busyUe EXCEPT ![c.on] = FALSE]
    /\ \/ c.step = "done" /\ ueCard' = hostUe
       \/ UNCHANGED ueCard
    /\ UNCHANGED <<hostVars, card, nfs, rows, late, busy, template, tearVars, labEvents>>

\* Of stopAll, when every one of its stops has settled: its finally reads the
\* list before it takes the flags back, and a read that fails leaves them.
StopAllEnded(by) ==
    LET group == {c \in calls : c.by = by /\ c.on \in UeIds}
        good == \A c \in group : c.step = "done"
    IN /\ group # {} /\ \A c \in group : c.step \in {"done", "failed"}
       /\ \E read \in BOOLEAN :
           /\ ueCard' = IF read THEN hostUe ELSE ueCard
           /\ busyUe' = [u \in UeIds |-> busyUe[u] /\ ~(read /\ \E c \in group : c.on = u)]
           /\ IF by = "tear" /\ good /\ read THEN GoOn("ues", plan, calls \ group, busy)
              ELSE /\ calls' = calls \ group /\ UNCHANGED busy
                   /\ tearing' = IF by = "tear" THEN "no" ELSE tearing
       /\ UNCHANGED <<hostVars, card, nfs, rows, late, template, plan, tore, labEvents>>

-----------------------------------------------------------------------------
Polling ==
    \/ \E t \in Targets : Poll(t) \/ PollLate(Status(t))
    \/ PollInstances \/ PollLate([on |-> "ues", status |-> hostUe])
    \/ \E a \in late : LateAnswer(a)
    \/ SubscribersRead

Clicking ==
    \/ PickTemplate \/ \E t \in Targets : PrimaryAction(t)
    \/ PrimaryActionBoth \/ StopAll \/ TearDown
    \/ \E u \in UeIds : DeployUe(u) \/ StopUe(u)

Working ==
    \/ \E c \in calls : Checked(c) \/ Creates(c) \/ UpEnds(c) \/ DownEnds(c)
    \/ \E c \in calls : TargetEnded(c) \/ UeEnded(c)
    \/ \E by \in {"all", "tear"} : StopAllEnded(by)

LabNext ==
    \/ Polling \/ Clicking \/ Working
    \/ \E x \in Things : Fails(x)
    \/ \E u \in UeIds : SubscriberDeleted(u)

\* Timers and answers come and compose commands end; the user need not act.
LabFairness ==
    /\ \A t \in Targets : WF_labVars(Poll(t))
    /\ WF_labVars(PollInstances) /\ WF_labVars(SubscribersRead)
    /\ WF_labVars(\E a \in late : LateAnswer(a)) /\ WF_labVars(Working)

LabSpec == LabInit /\ [][LabNext]_labVars /\ LabFairness

-----------------------------------------------------------------------------
(* Properties. *)

\* Until Tear down is clicked the buttons' flags keep to one action at a time
\* on a target or a UE, whatever the cards show meanwhile
\* (DashboardPage.tsx:366, UeInstancesPanel.tsx:42).
OneActionEach ==
    ~tore => \A x \in Things :
        /\ Cardinality({c \in calls : c.on = x}) <= 1
        /\ (\E c \in calls : c.on = x) => IF x \in Targets THEN busy[x] ELSE busyUe[x]

\* The cards end up showing what is deployed, however late, failed or out of
\* order the answers were (useDeployTarget.ts:62-70, useUeInstances.ts:83-96).
CardsCatchUp == <>[](card = host /\ ueCard = hostUe)

\* A target's buttons come back after every action, a failed one too
\* (useDeployTarget.ts:72-90).
TargetsFreed == \A t \in Targets : []<>(~busy[t])

\* checkStopDependents and checkDeployPrerequisite keep "the network's actual
\* dependency order" (deploy.go:240): no gNB is up when the core is stopped.
GnbHasCore == (\E g \in Gnbs : host[g] # "stopped") => host["core"] # "stopped"

=============================================================================
